---- MODULE Spec2Model ----
(***************************************************************************)
(* Model of the Wi-Fi Stalker reconciliation engine of unifi-toolkit:      *)
(* tools/wifi_stalker/scheduler.py (refresh_tracked_devices,               *)
(* process_device, close_connection_history) with the tracked-device and   *)
(* connection-history tables it works on.                                  *)
(*                                                                         *)
(* Python's None is the string "None" in string-valued fields and the      *)
(* empty sequence in number-valued fields (a number n is then <<n>>), so   *)
(* that every field keeps one type.  Display names (AP name, switch name,  *)
(* friendly name) are looked up from the MAC and take no part in any       *)
(* decision; they are left out of the records.                             *)
(***************************************************************************)
EXTENDS Integers, Sequences, FiniteSets, TLC

\* ------------------------------------------------------------------ bounds

\* Number of refresh ticks explored under Spec (two tracked devices).
MaxTime == 2

\* Number of refresh ticks explored under SpecOne (one tracked device).
MaxTimeOne == 4

\* Number of refresh ticks explored under SpecSinks (two devices, sinks).
MaxTimeSinks == 2

\* Resolution of the clock: ticks in one second.
TicksPerSecond == 2

\* Latest wall-clock reading explored under SpecClose, in ticks.
MaxWall == 9

\* Number of refresh ticks explored under SpecHourly.
MaxTimeHourly == 2

\* Number of aggregation runs explored under SpecHourly.
MaxAggregations == 3

\* Number of refresh ticks explored under SpecDelete.
MaxTimeDelete == 2

\* Number of refresh ticks explored under SpecCreate.
MaxTimeCreate == 1

\* Refresh ticks while a refresh_single_device task interleaves with cycles.
MaxTimeSingle == 3

\* Refresh ticks while block and unblock requests interleave with cycles.
MaxTimeBlock == 3

\* Instants of the wall clock per hour, instants explored and starts of the
\* application explored under SpecHours.
TicksPerHour == 2
MaxClock == 5
MaxStarts == 3

\* Polls of refresh_threat_events explored and events in one batch.
MaxPolls == 2
MaxBatch == 2

\* Number of create_device requests answered under SpecCreate.
MaxRequests == 2

\* Number of trigger firings per job explored under SpecJobs.
MaxFirings == 3

\* max_instances of both jobs.
MaxInstances == 1

\* Hardware addresses a user may register (already normalized).
Macs == {"m1", "m2"}

\* ------------------------------------------------------------ Python values

None == "None"

NoneInt == <<>>

Some(n) == <<n>>

\* Python truthiness of an optional string: None and "" are falsy.
Truthy(s) == s # None /\ s # ""

\* Python truthiness of an optional number: None and 0 are falsy.
TruthyInt(v) == v # NoneInt /\ v # Some(0)

\* a or b on optional numbers.
OrInt(a, b) == IF TruthyInt(a) THEN a ELSE b

Max(S) == CHOOSE x \in S : \A y \in S : y <= x

\* The orders in which a loop can go through a set of device ids.
Orders(ids) ==
    {order \in [1..Cardinality(ids) -> ids] :
        \A i, j \in DOMAIN order : i # j => order[i] # order[j]}

\* ------------------------------------------------------- snapshot descriptors

\* One entry of the dictionary get_clients returns, with the keys
\* process_device reads.
Client(wired, ap, sw, port, ip, signal, rssi, essid, radio) ==
    [is_wired |-> wired, ap_mac |-> ap, sw_mac |-> sw, sw_port |-> port,
     ip |-> ip, signal |-> signal, rssi |-> rssi, essid |-> essid,
     radio |-> radio]

WirelessOn(ap) ==
    Client(FALSE, ap, None, None, "10.0.0.5", NoneInt,
           IF ap = "ap2" THEN Some(-70) ELSE Some(-60), "home", "na")

WiredOn(sw, port) ==
    Client(TRUE, None, sw, port, "10.0.0.5", NoneInt, NoneInt, None, None)

\* The descriptors one device can be reported with under SpecOne: wireless
\* on either of two access points or with no AP identity, wired on either of
\* two ports of a switch or with no switch identity.
ClientsFull ==
    {WirelessOn("ap1"), WirelessOn("ap2"), WirelessOn(None),
     WiredOn("sw1", "1"), WiredOn("sw1", "2"), WiredOn(None, None)}

\* The descriptors one device can be reported with under Spec.
ClientsSmall == {WirelessOn("ap1"), WiredOn("sw1", "1")}

\* What is_client_blocked yields to process_device: the flag (ok, blocked),
\* or an exception (not ok).
BlockedIs(b) == [ok |-> TRUE, blocked |-> b]

BlockedError == [ok |-> FALSE, blocked |-> FALSE]

\* What the lookup of one device meets at the controller: the user list names
\* the device with its blocked flag ...
LookupUser(b) == [kind |-> "user", blocked |-> b]

\* ... or the request fails (it raises, or answers with another status than
\* 200) ...
LookupFails == [kind |-> "failed", blocked |-> FALSE]

\* ... or the client holds no controller session.
LookupNoSession == [kind |-> "no_session", blocked |-> FALSE]

\* is_client_blocked: only a missing session raises; a failed request is
\* logged and answered with False.
is_client_blocked(lookup) ==
    IF lookup.kind = "no_session" THEN BlockedError
    ELSE IF lookup.kind = "user" THEN BlockedIs(lookup.blocked)
    ELSE BlockedIs(FALSE)

BlockedFull ==
    {LookupUser(TRUE), LookupUser(FALSE), LookupFails, LookupNoSession}

BlockedSmall == {LookupUser(TRUE), LookupUser(FALSE)}

\* All dictionaries get_clients can return over a set of addresses and a set
\* of descriptors: a device absent from the dictionary is not attached.
Snapshots(macs, clients) ==
    UNION {[present -> clients] : present \in SUBSET macs}

\* --------------------------------------------------------------- datetimes

\* A datetime: the wall-clock reading in ticks, and the offset of its time
\* zone from UTC in ticks when it carries one (aware).
DateTime(wall, aware, offset) ==
    [wall |-> wall, aware |-> aware, offset |-> offset]

\* datetime.now(timezone.utc) at an instant given in ticks.
UtcNow(instant) == DateTime(instant, TRUE, 0)

\* A stored timestamp as the session loads it: whole seconds, no time zone.
Stored(seconds) == DateTime(seconds * TicksPerSecond, FALSE, 0)

\* AssumeUtc with a slip: the time zone is replaced even when there is one.
AssumeUtcAlways(dt) == [dt EXCEPT !.aware = TRUE, !.offset = 0]

\* If the datetime is naive, make it aware, assuming UTC.
AssumeUtc(dt) ==
    IF ~dt.aware THEN [dt EXCEPT !.aware = TRUE, !.offset = 0] ELSE dt

\* Subtraction of two aware datetimes, in ticks.
Minus(a, b) == (a.wall - a.offset) - (b.wall - b.offset)

\* int(delta.total_seconds()): truncation toward zero.
IntSeconds(ticks) ==
    IF ticks >= 0 THEN ticks \div TicksPerSecond
    ELSE -((-ticks) \div TicksPerSecond)

\* The duration close_connection_history stores for an interval.
DurationSeconds(connected_at, disconnected_at) ==
    IntSeconds(Minus(AssumeUtc(disconnected_at), AssumeUtc(connected_at)))

\* ------------------------------------------------------------------ tables

\* A freshly created TrackedDevice row.
NewDevice(id, mac) ==
    [id |-> id, mac_address |-> mac, last_seen |-> NoneInt,
     is_connected |-> FALSE, is_blocked |-> FALSE, is_wired |-> FALSE,
     current_ap_mac |-> None, current_ip_address |-> None,
     current_signal_strength |-> NoneInt, current_ssid |-> None,
     current_radio |-> None, current_switch_mac |-> None,
     current_switch_port |-> None]

\* A freshly opened ConnectionHistory row.
NewHistory(device_id, wired, ap, ssid, signal, sw, port, t) ==
    [device_id |-> device_id, is_wired |-> wired, ap_mac |-> ap,
     ssid |-> ssid, signal_strength |-> signal, switch_mac |-> sw,
     switch_port |-> port, connected_at |-> t, disconnected_at |-> NoneInt,
     duration_seconds |-> NoneInt]

\* OpenIdx with a slip: the closed rows of the device are selected too.
OpenIdxClosedToo(hist, id) ==
    {i \in 1..Len(hist) : hist[i].device_id = id}

\* OpenIdx with a slip: the query lacks the device filter.
OpenIdxAnyDevice(hist, id) ==
    {i \in 1..Len(hist) : hist[i].disconnected_at = NoneInt}

\* Positions of the open rows of a device in a history table.
OpenIdx(hist, id) ==
    {i \in 1..Len(hist) :
        hist[i].device_id = id /\ hist[i].disconnected_at = NoneInt}

\* Positions of the closed rows of a device in a history table.
ClosedIdx(hist, id) ==
    {i \in 1..Len(hist) :
        hist[i].device_id = id /\ hist[i].disconnected_at # NoneInt}

\* The row close_connection_history selects: the open row of the device with
\* the greatest connected_at.
MostRecentOpen(hist, id) ==
    CHOOSE i \in OpenIdx(hist, id) :
        \A j \in OpenIdx(hist, id) : hist[j].connected_at <= hist[i].connected_at

CloseRow(row, t) ==
    [row EXCEPT !.disconnected_at = Some(t),
                !.duration_seconds =
                    Some(DurationSeconds(Stored(row.connected_at),
                                         UtcNow(t * TicksPerSecond)))]

\* close_connection_history with a slip: every open row of the device is
\* closed.
CloseEveryOpen(hist, id, t) ==
    [i \in 1..Len(hist) |->
        IF i \in OpenIdx(hist, id) THEN CloseRow(hist[i], t) ELSE hist[i]]

close_connection_history(hist, id, t) ==
    IF OpenIdx(hist, id) = {} THEN hist
    ELSE LET i == MostRecentOpen(hist, id)
         IN  [hist EXCEPT ![i] = CloseRow(hist[i], t)]

\* ------------------------------------------------------------- side effects

Broadcast(device) ==
    [kind |-> "broadcast", event_type |-> "device_update",
     device_id |-> device.id, offline_duration |-> NoneInt]

\* A call of trigger_webhooks.
Webhook(event_type, device, offline_duration) ==
    [kind |-> "webhook", event_type |-> event_type,
     device_id |-> device.id,
     offline_duration |-> IF event_type = "connected" THEN offline_duration
                          ELSE NoneInt]

\* OfflineDuration with a slip: measured from the start of the interval
\* closed last.
OfflineDurationSinceConnect(hist, id, t) ==
    IF ClosedIdx(hist, id) = {} THEN NoneInt
    ELSE LET last == CHOOSE i \in ClosedIdx(hist, id) :
                         \A j \in ClosedIdx(hist, id) :
                             hist[j].disconnected_at[1] <= hist[i].disconnected_at[1]
         IN  Some(t - hist[last].connected_at)

\* offline_duration of a connect: now minus the latest disconnected_at among
\* the device's closed rows, None when it has none.
OfflineDuration(hist, id, t) ==
    IF ClosedIdx(hist, id) = {} THEN NoneInt
    ELSE Some(t - Max({hist[i].disconnected_at[1] : i \in ClosedIdx(hist, id)}))

\* ---------------------------------------------------------------- presence

\* A freshly created HourlyPresence row: one hour and one sample.
HourlyPresence(device_id, day_of_week, hour_of_day) ==
    [device_id |-> device_id, day_of_week |-> day_of_week,
     hour_of_day |-> hour_of_day, total_minutes_connected |-> 60,
     sample_count |-> 1]

\* Positions of the rows of one (device, day, hour) slot.
BucketIdx(rows, device_id, day_of_week, hour_of_day) ==
    {i \in DOMAIN rows :
        /\ rows[i].device_id = device_id
        /\ rows[i].day_of_week = day_of_week
        /\ rows[i].hour_of_day = hour_of_day}

\* The tracked devices the aggregation selects: connected and not wired.
ConnectedWireless(devices) ==
    {id \in DOMAIN devices :
        devices[id].is_connected /\ ~devices[id].is_wired}

\* The existing record of a slot gets one more hour and one more sample.
AddHour(row) ==
    [row EXCEPT !.total_minutes_connected = @ + 60, !.sample_count = @ + 1]

\* AddMissing with a slip: a new record starts empty.
AddMissingEmpty(rows, order, day_of_week, hour_of_day) ==
    rows \o [k \in DOMAIN order |->
                [HourlyPresence(order[k], day_of_week, hour_of_day)
                    EXCEPT !.total_minutes_connected = 0,
                           !.sample_count = 0]]

\* The records created for the devices that had none in the slot, in the
\* order the loop met them.
AddMissing(rows, order, day_of_week, hour_of_day) ==
    rows \o [k \in DOMAIN order |->
                HourlyPresence(order[k], day_of_week, hour_of_day)]

\* get_presence_pattern: the average minutes it reports for a record.
AvgMinutes(record) ==
    IF record.sample_count > 0
    THEN record.total_minutes_connected \div record.sample_count
    ELSE 0

\* ---------------------------------------------------------------- webhooks

\* A WebhookConfig row: a sink, the event types it subscribes to, whether it
\* is enabled, and when it was last triggered.
WebhookConfig(name, enabled, subscribed) ==
    [name |-> name, enabled |-> enabled, subscribed |-> subscribed,
     last_triggered |-> NoneInt]

\* How a call of deliver_webhook can end: it returns True, it returns False
\* (the sink refused, or the transport failed inside deliver_webhook), or it
\* raises to trigger_webhooks.
DeliveryResults == {"delivered", "refused", "raised"}

\* Targets with a slip: every enabled sink is called, whatever event types
\* it subscribes to.
TargetsAnyType(sinks, event_type) ==
    {w \in DOMAIN sinks : sinks[w].enabled}

\* The sinks trigger_webhooks calls for an event type: enabled rows whose
\* flag for the type is set, in table order.
Targets(sinks, event_type) ==
    {w \in DOMAIN sinks :
        sinks[w].enabled /\ event_type \in sinks[w].subscribed}

\* The delivery calls a sequence of events leads to: (event position, sink).
Deliveries(evs, sinks) ==
    {<<k, w>> \in (DOMAIN evs) \X (DOMAIN sinks) :
        evs[k].kind = "webhook" /\ w \in Targets(sinks, evs[k].event_type)}

\* One call of deliver_webhook as the log records it.
Attempt(event, w, result) ==
    [sink |-> w, event_type |-> event.event_type,
     device_id |-> event.device_id,
     offline_duration |-> event.offline_duration, result |-> result]

\* trigger_webhooks with a slip: the loop over the sinks ends at the first
\* delivery that raises.
TriggerStopsAtRaise(event, sinks, result_of) ==
    LET targets == Targets(sinks, event.event_type)
        calls == {w \in targets :
                     \A v \in targets : v < w => result_of[v] # "raised"}
    IN  {Attempt(event, w, result_of[w]) : w \in calls}

\* trigger_webhooks for one event: every target sink gets one delivery call,
\* whatever the calls before it came to.
trigger_webhooks(event, sinks, result_of) ==
    {Attempt(event, w, result_of[w]) : w \in Targets(sinks, event.event_type)}

\* The delivery calls of a sequence of events, given how each call ends.
AttemptsOf(evs, sinks, fate) ==
    UNION {trigger_webhooks(evs[k], sinks,
                            [w \in Targets(sinks, evs[k].event_type) |->
                                fate[<<k, w>>]]) :
           k \in {i \in DOMAIN evs : evs[i].kind = "webhook"}}

\* The sinks whose last_triggered the attempts set: those with a delivery
\* call that returned.
Triggered(attempts) ==
    {a.sink : a \in {b \in attempts : b.result # "raised"}}

\* ------------------------------------------------------------ process_device

Result(device, history, events) ==
    [device |-> device, history |-> history, events |-> events]

\* WiredBranch with a slip: every sighting on a named switch counts as a
\* move, the stored switch and port are not compared.
WiredBranchAlwaysMoves(device, hist, client, t) ==
    LET d1 == [device EXCEPT !.current_signal_strength = NoneInt,
                             !.current_ssid = None,
                             !.current_radio = None]
        h1 == IF d1.is_connected /\ Truthy(d1.current_switch_mac)
              THEN close_connection_history(hist, d1.id, t)
              ELSE hist
        h2 == Append(h1, NewHistory(d1.id, TRUE, None, None, NoneInt,
                                    client.sw_mac, client.sw_port, t))
        d2 == [d1 EXCEPT !.current_switch_mac = client.sw_mac,
                         !.current_switch_port = client.sw_port,
                         !.current_ap_mac = None]
    IN  IF Truthy(client.sw_mac)
        THEN Result(d2, h2, <<Broadcast(d2), Webhook("roamed", d2, NoneInt)>>)
        ELSE Result(d1, hist, <<>>)

\* WiredBranch with a slip: a move does not store the new port.
WiredBranchForgetsPort(device, hist, client, t) ==
    LET d1 == [device EXCEPT !.current_signal_strength = NoneInt,
                             !.current_ssid = None,
                             !.current_radio = None]
        moved == \/ d1.current_switch_mac # client.sw_mac
                 \/ d1.current_switch_port # client.sw_port
        h1 == IF d1.is_connected /\ Truthy(d1.current_switch_mac)
              THEN close_connection_history(hist, d1.id, t)
              ELSE hist
        h2 == Append(h1, NewHistory(d1.id, TRUE, None, None, NoneInt,
                                    client.sw_mac, client.sw_port, t))
        d2 == [d1 EXCEPT !.current_switch_mac = client.sw_mac,
                         !.current_ap_mac = None]
    IN  IF Truthy(client.sw_mac) /\ moved
        THEN Result(d2, h2, <<Broadcast(d2), Webhook("roamed", d2, NoneInt)>>)
        ELSE Result(d1, hist, <<>>)

\* The wired branch: the device is reported with is_wired set.
WiredBranch(device, hist, client, t) ==
    LET d1 == [device EXCEPT !.current_signal_strength = NoneInt,
                             !.current_ssid = None,
                             !.current_radio = None]
        moved == \/ d1.current_switch_mac # client.sw_mac
                 \/ d1.current_switch_port # client.sw_port
        h1 == IF d1.is_connected /\ Truthy(d1.current_switch_mac)
              THEN close_connection_history(hist, d1.id, t)
              ELSE hist
        h2 == Append(h1, NewHistory(d1.id, TRUE, None, None, NoneInt,
                                    client.sw_mac, client.sw_port, t))
        d2 == [d1 EXCEPT !.current_switch_mac = client.sw_mac,
                         !.current_switch_port = client.sw_port,
                         !.current_ap_mac = None]
    IN  IF Truthy(client.sw_mac) /\ moved
        THEN Result(d2, h2, <<Broadcast(d2), Webhook("roamed", d2, NoneInt)>>)
        ELSE Result(d1, hist, <<>>)

\* WirelessBranch with a slip: a roam opens the new row without closing the
\* previous one.
WirelessBranchRoamKeepsOpen(device, hist, client, t) ==
    LET signal_strength == OrInt(client.signal, client.rssi)
        d1 == [device EXCEPT !.current_signal_strength = signal_strength,
                             !.current_ssid = client.essid,
                             !.current_radio = client.radio,
                             !.current_switch_mac = None,
                             !.current_switch_port = None]
        opened == NewHistory(d1.id, FALSE, client.ap_mac, client.essid,
                             signal_strength, None, None, t)
        hc == Append(hist, opened)
        dc == [d1 EXCEPT !.current_ap_mac = client.ap_mac,
                         !.is_connected = TRUE]
        dr == [d1 EXCEPT !.current_ap_mac = client.ap_mac]
    IN  IF ~Truthy(client.ap_mac) THEN Result(d1, hist, <<>>)
        ELSE IF ~d1.is_connected
        THEN Result(dc, hc,
                    <<Broadcast(dc),
                      Webhook("connected", dc, OfflineDuration(hc, dc.id, t))>>)
        ELSE IF d1.current_ap_mac # client.ap_mac
        THEN Result(dr, hc, <<Broadcast(dr), Webhook("roamed", dr, NoneInt)>>)
        ELSE Result(d1, hist, <<>>)

\* The wireless branch: the device is reported without is_wired.
WirelessBranch(device, hist, client, t) ==
    LET signal_strength == OrInt(client.signal, client.rssi)
        d1 == [device EXCEPT !.current_signal_strength = signal_strength,
                             !.current_ssid = client.essid,
                             !.current_radio = client.radio,
                             !.current_switch_mac = None,
                             !.current_switch_port = None]
        was_offline == ~d1.is_connected
        ap_changed == d1.current_ap_mac # client.ap_mac
        opened == NewHistory(d1.id, FALSE, client.ap_mac, client.essid,
                             signal_strength, None, None, t)
        \* came online
        hc == Append(hist, opened)
        dc == [d1 EXCEPT !.current_ap_mac = client.ap_mac,
                         !.is_connected = TRUE]
        \* roamed
        hr == Append(IF Truthy(d1.current_ap_mac)
                     THEN close_connection_history(hist, d1.id, t)
                     ELSE hist,
                     opened)
        dr == [d1 EXCEPT !.current_ap_mac = client.ap_mac]
    IN  IF ~Truthy(client.ap_mac) THEN Result(d1, hist, <<>>)
        ELSE IF was_offline
        THEN Result(dc, hc,
                    <<Broadcast(dc),
                      Webhook("connected", dc, OfflineDuration(hc, dc.id, t))>>)
        ELSE IF ap_changed
        THEN Result(dr, hr, <<Broadcast(dr), Webhook("roamed", dr, NoneInt)>>)
        ELSE Result(d1, hist, <<>>)

\* OnlineBranch with a slip: the device is not marked as connected after the
\* branch of its medium.
OnlineBranchLeavesFlag(device, hist, client, t) ==
    LET d1 == [device EXCEPT !.last_seen = Some(t),
                             !.current_ip_address = client.ip,
                             !.is_wired = client.is_wired]
    IN  IF client.is_wired
        THEN WiredBranch(d1, hist, client, t)
        ELSE WirelessBranch(d1, hist, client, t)

\* The device is in the snapshot.
OnlineBranch(device, hist, client, t) ==
    LET d1 == [device EXCEPT !.last_seen = Some(t),
                             !.current_ip_address = client.ip,
                             !.is_wired = client.is_wired]
        r == IF client.is_wired
             THEN WiredBranch(d1, hist, client, t)
             ELSE WirelessBranch(d1, hist, client, t)
    IN  Result([r.device EXCEPT !.is_connected = TRUE], r.history, r.events)

\* OfflineBranch with a slip: a device already stored as disconnected is
\* disconnected again.
OfflineBranchAlways(device, hist, t) ==
    LET d1 == [device EXCEPT !.is_connected = FALSE]
    IN  Result(d1, close_connection_history(hist, device.id, t),
               <<Broadcast(d1), Webhook("disconnected", d1, NoneInt)>>)

\* OfflineBranch with a slip: the open row is left open.
OfflineBranchKeepsOpen(device, hist, t) ==
    LET d1 == [device EXCEPT !.is_connected = FALSE]
    IN  IF device.is_connected
        THEN Result(d1, hist,
                    <<Broadcast(d1), Webhook("disconnected", d1, NoneInt)>>)
        ELSE Result(device, hist, <<>>)

\* The device is not in the snapshot.
OfflineBranch(device, hist, t) ==
    LET d1 == [device EXCEPT !.is_connected = FALSE]
    IN  IF device.is_connected
        THEN Result(d1, close_connection_history(hist, device.id, t),
                    <<Broadcast(d1), Webhook("disconnected", d1, NoneInt)>>)
        ELSE Result(device, hist, <<>>)

\* BlockedCheck with a slip: level-triggered, it notifies whenever the query
\* reports the device blocked.
BlockedCheckLevel(device, query) ==
    LET d1 == [device EXCEPT !.is_blocked = query.blocked]
    IN  IF query.ok /\ (device.is_blocked # query.blocked \/ query.blocked)
        THEN [device |-> d1,
              events |-> <<Broadcast(d1),
                           Webhook(IF query.blocked THEN "blocked"
                                   ELSE "unblocked", d1, NoneInt)>>]
        ELSE [device |-> device, events |-> <<>>]

\* The blocked-status check that ends process_device.
BlockedCheck(device, query) ==
    LET d1 == [device EXCEPT !.is_blocked = query.blocked]
    IN  IF query.ok /\ device.is_blocked # query.blocked
        THEN [device |-> d1,
              events |-> <<Broadcast(d1),
                           Webhook(IF query.blocked THEN "blocked"
                                   ELSE "unblocked", d1, NoneInt)>>]
        ELSE [device |-> device, events |-> <<>>]

\* process_device on one tracked device, against the dictionary of active
\* clients and the outcome of the blocked-status query, at time t.
process_device(device, hist, active, query, t) ==
    LET mac == device.mac_address
        r == IF mac \in DOMAIN active
             THEN OnlineBranch(device, hist, active[mac], t)
             ELSE OfflineBranch(device, hist, t)
        b == BlockedCheck(r.device, query)
    IN  Result(b.device, r.history, r.events \o b.events)

\* -------------------------------------------------------------------- state

VARIABLES
    db_devices,     \* committed stalker_tracked_devices rows, by id
    db_history,     \* committed stalker_connection_history rows, in id order
    s_devices,      \* the rows the cycle's session has loaded and mutated
    s_history,      \* the history table as the cycle's session sees it
    active_clients, \* the dictionary get_clients returned to the cycle
    blocked_status, \* what is_client_blocked meets per address in the cycle
    events,         \* broadcasts and trigger_webhooks calls of the cycle
    todo,           \* ids the cycle's loop has not processed yet
    pc,             \* "idle", or "processing" inside a cycle
    now,            \* the clock; each refresh tick advances it
    client_cached,  \* the shared controller connection is cached
    outcome,        \* how the last refresh ended, "running" inside a cycle
    repeat,         \* the cycle's inputs equal those of the cycle before it
    dispatched,     \* trigger_webhooks calls since the last commit, per type
    job,            \* the refresh that ran last: "cycle", "single" or "none"
    spawned,        \* ids whose refresh_single_device task has not run yet
    webhooks,       \* committed stalker_webhook_config rows, in id order
    delivered,      \* deliver_webhook calls of the refresh in progress
    closing,        \* one call of the duration computation, with its result
    presence,       \* committed stalker_hourly_presence rows, in id order
    aggregated,     \* number of aggregate_hourly_presence runs so far
    jobs,           \* the runs of the scheduled jobs in progress, with the clock
                    \* and the threat events where a specification has them
    deleting,       \* the delete_device request in progress, if any
    requests,       \* the other API requests in progress, and their responses
    single          \* the refresh_single_device task running beside a cycle

vars == <<db_devices, db_history, s_devices, s_history, active_clients,
          blocked_status, events, todo, pc, now, client_cached, outcome,
          repeat, dispatched, job, spawned, webhooks, delivered, closing,
          presence, aggregated, jobs, deleting, requests, single>>

\* The state a refresh neither reads nor writes.
apart == <<closing, presence, aggregated, jobs, deleting, requests, single>>

\* The state of the tables, the refresh in progress and its sinks.
refresh_vars ==
    <<db_devices, db_history, s_devices, s_history, active_clients,
      blocked_status, events, todo, pc, now, client_cached, outcome, repeat,
      dispatched, job, spawned, webhooks, delivered>>

EventTypes == {"connected", "disconnected", "roamed", "blocked", "unblocked"}

\* Number of trigger_webhooks calls of one type in a sequence of events.
Calls(evs, type) ==
    Cardinality({k \in 1..Len(evs) :
        evs[k].kind = "webhook" /\ evs[k].event_type = type})

\* A dictionary with no entry.
Empty == [m \in {} |-> TRUE]

\* The addresses tracked in a devices table.
TrackedMacs(devices) == {devices[i].mac_address : i \in DOMAIN devices}

\* The session is closed: it holds what the database holds.
SessionClosed ==
    /\ s_devices' = db_devices'
    /\ s_history' = db_history'
    /\ todo' = {}
    /\ events' = <<>>
    /\ delivered' = {}

\* The session has mutated a device whose row was deleted after the session
\* loaded it: the UPDATE of its flush matches no row.
Stale ==
    /\ deleting # <<>>
    /\ \E i \in DOMAIN s_devices \cap DOMAIN deleting.gone :
          s_devices[i] # deleting.gone[i]

\* The session holds changes that are not committed.
Dirty ==
    \/ \E i \in DOMAIN s_devices \cap DOMAIN db_devices :
          s_devices[i] # db_devices[i]
    \/ Stale
    \/ s_history # db_history

\* No duration computation, no presence row, no job run and no delete
\* request.
NothingApart ==
    /\ closing = <<>>
    /\ presence = <<>>
    /\ aggregated = 0
    /\ jobs = <<>>
    /\ deleting = <<>>
    /\ requests = <<>>
    /\ single = <<>>

\* A store holding the given devices and sinks, with no interval, no refresh
\* in progress and no controller connection yet.
AtRest(devices, sinks) ==
    /\ db_devices = devices
    /\ db_history = <<>>
    /\ s_devices = devices
    /\ s_history = <<>>
    /\ active_clients = Empty
    /\ blocked_status = Empty
    /\ events = <<>>
    /\ todo = {}
    /\ pc = "idle"
    /\ now = 0
    /\ client_cached = FALSE
    /\ outcome = "none"
    /\ repeat = FALSE
    /\ dispatched = [type \in EventTypes |-> 0]
    /\ job = "none"
    /\ spawned = {}
    /\ webhooks = sinks
    /\ delivered = {}

\* The empty database, before any device is registered.
Init == AtRest(Empty, <<>>) /\ NothingApart

\* A database in which one device has been registered and not yet seen.
InitOne == AtRest([i \in {1} |-> NewDevice(1, "m1")], <<>>) /\ NothingApart

\* create_device: register an address that is not tracked yet and spawn the
\* refresh_single_device task of the new device.
create_device(mac) ==
    /\ pc = "idle"
    /\ mac \notin TrackedMacs(db_devices)
    /\ LET id == Cardinality(DOMAIN db_devices) + 1
       IN  /\ db_devices' = [i \in DOMAIN db_devices \cup {id} |->
                                 IF i = id THEN NewDevice(id, mac)
                                 ELSE db_devices[i]]
           /\ spawned' = spawned \cup {id}
    /\ UNCHANGED <<db_history, s_devices, s_history, active_clients,
                   blocked_status, events, todo, pc, now, client_cached,
                   outcome, repeat, dispatched, job, webhooks, delivered>>
    /\ UNCHANGED apart

\* A refresh that ends before the loop: nothing but the clock, the cached
\* connection and the outcome changes.
EndsEarly(how, cached) ==
    /\ pc = "idle"
    /\ now' = now + 1
    /\ outcome' = how
    /\ client_cached' = cached
    /\ active_clients' = Empty
    /\ blocked_status' = Empty
    /\ repeat' = FALSE
    /\ UNCHANGED <<db_devices, db_history, pc, dispatched, webhooks>>
    /\ SessionClosed
    /\ UNCHANGED apart

\* refresh_tracked_devices, get_shared_client yields no client: return.
RefreshNoClient(limit) ==
    /\ now < limit
    /\ ~client_cached
    /\ EndsEarly("no_client", FALSE)
    /\ job' = "cycle"
    /\ UNCHANGED spawned

\* refresh_tracked_devices, no tracked device: return.
RefreshNoDevices(limit) ==
    /\ now < limit
    /\ DOMAIN db_devices = {}
    /\ EndsEarly("no_devices", TRUE)
    /\ job' = "cycle"
    /\ UNCHANGED spawned

\* RefreshFetchFails with a slip: the shared client stays cached.
RefreshFetchFailsKeepsClient(limit) ==
    /\ now < limit
    /\ DOMAIN db_devices # {}
    /\ EndsEarly("fetch_failed", TRUE)
    /\ job' = "cycle"
    /\ UNCHANGED spawned

\* refresh_tracked_devices, get_clients raises: the handler invalidates the
\* shared client and the job returns.
RefreshFetchFails(limit) ==
    /\ now < limit
    /\ DOMAIN db_devices # {}
    /\ EndsEarly("fetch_failed", FALSE)
    /\ job' = "cycle"
    /\ UNCHANGED spawned

\* refresh_tracked_devices up to the loop: the session loads the tracked
\* devices and get_clients returns a snapshot.
RefreshStart(limit, clients, queries) ==
    /\ pc = "idle"
    /\ now < limit
    /\ DOMAIN db_devices # {}
    /\ \E snapshot \in Snapshots(TrackedMacs(db_devices), clients) :
       \E status \in [TrackedMacs(db_devices) -> queries] :
          /\ active_clients' = snapshot
          /\ blocked_status' = status
          /\ repeat' = /\ outcome = "committed"
                       /\ snapshot = active_clients
                       /\ status = blocked_status
    /\ now' = now + 1
    /\ client_cached' = TRUE
    /\ s_devices' = db_devices
    /\ s_history' = db_history
    /\ todo' = DOMAIN db_devices
    /\ events' = <<>>
    /\ pc' = "processing"
    /\ outcome' = "running"
    /\ job' = "cycle"
    /\ delivered' = {}
    /\ UNCHANGED <<db_devices, db_history, dispatched, spawned, webhooks>>
    /\ UNCHANGED apart

\* refresh_single_device of a newly registered device, get_shared_client
\* yields no client: return.
RefreshSingleNoClient(limit) ==
    /\ now < limit
    /\ ~client_cached
    /\ EndsEarly("no_client", FALSE)
    /\ job' = "single"
    /\ \E id \in spawned : spawned' = spawned \ {id}

\* refresh_single_device, get_clients raises: the handler invalidates the
\* shared client and the task ends.
RefreshSingleFetchFails(limit) ==
    /\ now < limit
    /\ EndsEarly("fetch_failed", FALSE)
    /\ job' = "single"
    /\ \E id \in spawned : spawned' = spawned \ {id}

\* RefreshSingleStart with a slip: the device is taken to be as new as when
\* it was registered, whatever the store holds.
RefreshSingleStartAssumesNew(limit, clients, queries) ==
    /\ pc = "idle"
    /\ now < limit
    /\ \E id \in spawned :
          /\ spawned' = spawned \ {id}
          /\ s_devices' = [i \in {id} |->
                               NewDevice(id, db_devices[id].mac_address)]
          /\ todo' = {id}
    /\ \E snapshot \in Snapshots(TrackedMacs(db_devices), clients) :
          active_clients' = snapshot
    /\ \E status \in [TrackedMacs(db_devices) -> queries] :
          blocked_status' = status
    /\ repeat' = FALSE
    /\ now' = now + 1
    /\ client_cached' = TRUE
    /\ s_history' = db_history
    /\ events' = <<>>
    /\ pc' = "processing"
    /\ outcome' = "running"
    /\ job' = "single"
    /\ delivered' = {}
    /\ UNCHANGED <<db_devices, db_history, dispatched, webhooks>>
    /\ UNCHANGED apart

\* refresh_single_device up to the call of process_device: the session loads
\* the one device and get_clients returns a snapshot.
RefreshSingleStart(limit, clients, queries) ==
    /\ pc = "idle"
    /\ now < limit
    /\ \E id \in spawned :
          /\ spawned' = spawned \ {id}
          /\ s_devices' = [i \in {id} |-> db_devices[id]]
          /\ todo' = {id}
    /\ \E snapshot \in Snapshots(TrackedMacs(db_devices), clients) :
          active_clients' = snapshot
    /\ \E status \in [TrackedMacs(db_devices) -> queries] :
          blocked_status' = status
    /\ repeat' = FALSE
    /\ now' = now + 1
    /\ client_cached' = TRUE
    /\ s_history' = db_history
    /\ events' = <<>>
    /\ pc' = "processing"
    /\ outcome' = "running"
    /\ job' = "single"
    /\ delivered' = {}
    /\ UNCHANGED <<db_devices, db_history, dispatched, webhooks>>
    /\ UNCHANGED apart

\* One turn of the loop, or the one call of refresh_single_device:
\* process_device on a device not processed yet.
ProcessNext ==
    /\ pc = "processing"
    /\ \E id \in todo :
          LET r == process_device(s_devices[id], s_history, active_clients,
                                  is_client_blocked(
                                      blocked_status[s_devices[id].mac_address]),
                                  now)
          IN  /\ s_devices' = [s_devices EXCEPT ![id] = r.device]
              /\ s_history' = r.history
              /\ events' = events \o r.events
              /\ todo' = todo \ {id}
              /\ dispatched' = [type \in EventTypes |->
                                   dispatched[type] + Calls(r.events, type)]
              /\ \E fate \in [Deliveries(r.events, webhooks) ->
                                  DeliveryResults] :
                    delivered' =
                        delivered \cup AttemptsOf(r.events, webhooks, fate)
    /\ UNCHANGED <<db_devices, db_history, active_clients, blocked_status,
                   pc, now, client_cached, outcome, repeat, job, spawned,
                   webhooks>>
    /\ UNCHANGED apart

\* The row of a device as the cycle's session loaded it: the stored row,
\* unless a refresh_single_device task committed the device after the cycle
\* had loaded it.
Loaded(i) ==
    IF /\ single # <<>>
       /\ single.stage = "done"
       /\ single.id = i
       /\ single.cycle = now
    THEN single.before
    ELSE IF /\ requests # <<>>
            /\ "stage" \in DOMAIN requests
            /\ requests.stage = "done"
            /\ requests.id = i
            /\ requests.cycle = now
         THEN [db_devices[i] EXCEPT !.is_blocked = requests.before]
         ELSE db_devices[i]

\* The row of a device after the flush of the cycle's session: the UPDATE
\* sets the columns the session changed, and is_blocked is the one column
\* another session writes meanwhile.
Flushed(i) ==
    IF s_devices[i] = Loaded(i) THEN db_devices[i]
    ELSE [s_devices[i] EXCEPT
             !.is_blocked = IF @ = Loaded(i).is_blocked
                            THEN db_devices[i].is_blocked ELSE @]

\* session.commit() after the loop: the rows the session changed become the
\* stored rows.
RefreshCommit ==
    /\ pc = "processing"
    /\ todo = {}
    /\ ~Stale
    /\ db_devices' = [i \in DOMAIN db_devices |->
                         IF i \in DOMAIN s_devices THEN Flushed(i)
                         ELSE db_devices[i]]
    /\ db_history' = s_history
    /\ pc' = "idle"
    /\ outcome' = "committed"
    /\ dispatched' = [type \in EventTypes |-> 0]
    /\ webhooks' = [w \in DOMAIN webhooks |->
                       IF w \in Triggered(delivered)
                       THEN [webhooks[w] EXCEPT !.last_triggered = Some(now)]
                       ELSE webhooks[w]]
    /\ SessionClosed
    /\ UNCHANGED <<active_clients, blocked_status, now, client_cached, repeat,
                   job, spawned>>
    /\ UNCHANGED apart

\* RefreshFails with a slip: the rows mutated so far are written before the
\* session is dropped.
RefreshFailsKeepsWork ==
    /\ pc = "processing"
    /\ pc' = "idle"
    /\ outcome' = IF Dirty THEN "rolled_back" ELSE "failed"
    /\ client_cached' = FALSE
    /\ active_clients' = Empty
    /\ blocked_status' = Empty
    /\ repeat' = FALSE
    /\ db_devices' = [i \in DOMAIN db_devices |->
                         IF i \in DOMAIN s_devices THEN s_devices[i]
                         ELSE db_devices[i]]
    /\ db_history' = s_history
    /\ UNCHANGED <<now, dispatched, job, spawned, webhooks>>
    /\ SessionClosed
    /\ UNCHANGED apart

\* An exception inside the loop or in the commit: the session is dropped
\* with its uncommitted rows and the shared client is invalidated.
RefreshFails ==
    /\ pc = "processing"
    /\ pc' = "idle"
    /\ outcome' = IF Dirty THEN "rolled_back" ELSE "failed"
    /\ client_cached' = FALSE
    /\ active_clients' = Empty
    /\ blocked_status' = Empty
    /\ repeat' = FALSE
    /\ UNCHANGED <<db_devices, db_history, now, dispatched, job, spawned,
                   webhooks>>
    /\ SessionClosed
    /\ UNCHANGED apart

\* ------------------------------------------------------------ specifications

\* Two users' devices, registered while the engine runs.
Next ==
    \/ \E mac \in Macs : create_device(mac)
    \/ RefreshNoClient(MaxTime)
    \/ RefreshNoDevices(MaxTime)
    \/ RefreshFetchFails(MaxTime)
    \/ RefreshStart(MaxTime, ClientsSmall, BlockedSmall)
    \/ RefreshSingleNoClient(MaxTime)
    \/ RefreshSingleFetchFails(MaxTime)
    \/ RefreshSingleStart(MaxTime, ClientsSmall, BlockedSmall)
    \/ ProcessNext
    \/ RefreshCommit
    \/ RefreshFails

Spec == Init /\ [][Next]_vars

\* One registered device, every kind of descriptor.
NextOne ==
    \/ RefreshNoClient(MaxTimeOne)
    \/ RefreshFetchFails(MaxTimeOne)
    \/ RefreshStart(MaxTimeOne, ClientsFull, BlockedFull)
    \/ ProcessNext
    \/ RefreshCommit
    \/ RefreshFails

SpecOne == InitOne /\ [][NextOne]_vars

\* The sinks configured under SpecSinks: one subscribed to every event type,
\* one to connects only, one subscribed to everything but disabled.
SinksConfigured ==
    <<WebhookConfig("slack", TRUE, EventTypes),
      WebhookConfig("discord", TRUE, {"connected"}),
      WebhookConfig("n8n", FALSE, EventTypes)>>

\* The descriptors a device can be reported with under SpecSinks.
ClientsWireless == {WirelessOn("ap1"), WirelessOn("ap2")}

\* The lookup outcomes under SpecSinks.
BlockedNever == {LookupUser(FALSE)}

\* Two registered devices that were never seen.
TwoDevices == [i \in {1, 2} |-> NewDevice(i, IF i = 1 THEN "m1" ELSE "m2")]

\* Two registered devices that were never seen, and three configured sinks.
InitSinks == AtRest(TwoDevices, SinksConfigured) /\ NothingApart

\* Two registered devices and the configured sinks.
NextSinks ==
    \/ RefreshNoClient(MaxTimeSinks)
    \/ RefreshFetchFails(MaxTimeSinks)
    \/ RefreshStart(MaxTimeSinks, ClientsWireless, BlockedNever)
    \/ ProcessNext
    \/ RefreshCommit
    \/ RefreshFails

SpecSinks == InitSinks /\ [][NextSinks]_vars

\* The time zone offsets explored under SpecClose: UTC, and a zone ahead of
\* and a zone behind UTC by a whole number of seconds.
ZoneOffsets == {0, 2 * TicksPerSecond, -3 * TicksPerSecond}

\* The connected_at values explored under SpecClose: naive, or aware in one
\* of the zones.
ConnectedAts ==
    {DateTime(wall, FALSE, 0) : wall \in 0..MaxWall} \cup
    {DateTime(wall, TRUE, offset) : wall \in 0..MaxWall, offset \in ZoneOffsets}

\* An open interval with any connected_at, about to be closed at any time.
InitClose ==
    /\ AtRest(Empty, <<>>)
    /\ presence = <<>>
    /\ aggregated = 0
    /\ jobs = <<>>
    /\ deleting = <<>>
    /\ requests = <<>>
    /\ single = <<>>
    /\ \E connected_at \in ConnectedAts, instant \in 0..MaxWall :
          closing = [connected_at |-> connected_at,
                     disconnected_at |-> UtcNow(instant),
                     duration_seconds |-> NoneInt]

\* close_connection_history closes the interval: it stores the duration.
CloseInterval ==
    /\ closing.duration_seconds = NoneInt
    /\ closing' = [closing EXCEPT !.duration_seconds =
                       Some(DurationSeconds(closing.connected_at,
                                            closing.disconnected_at))]
    /\ UNCHANGED <<refresh_vars, presence, aggregated, jobs, deleting, requests, single>>

NextClose == CloseInterval

SpecClose == InitClose /\ [][NextClose]_vars

\* The (day of week, hour of day) slots explored under SpecHourly.
Slots == {<<0, 14>>, <<0, 15>>}

\* aggregate_hourly_presence at a (day, hour): every connected wireless
\* device gets an hour in its record of the slot, created when missing, and
\* the session commits.  A device with more than one record in the slot makes
\* scalar_one_or_none raise, and the run stores nothing.
aggregate_hourly_presence(limit) ==
    /\ aggregated < limit
    /\ aggregated' = aggregated + 1
    /\ \E slot \in Slots :
          LET selected == ConnectedWireless(db_devices)
              found == {id \in selected :
                           BucketIdx(presence, id, slot[1], slot[2]) # {}}
              hit == UNION {BucketIdx(presence, id, slot[1], slot[2]) :
                               id \in selected}
              updated == [i \in DOMAIN presence |->
                             IF i \in hit THEN AddHour(presence[i])
                             ELSE presence[i]]
          IN  IF \E id \in selected :
                    Cardinality(BucketIdx(presence, id, slot[1], slot[2])) > 1
              THEN presence' = presence
              ELSE \E order \in Orders(selected \ found) :
                      presence' = AddMissing(updated, order, slot[1], slot[2])
    /\ UNCHANGED <<refresh_vars, closing, jobs, deleting, requests, single>>

\* Two registered devices, refreshed and aggregated.
NextHourly ==
    \/ RefreshStart(MaxTimeHourly, ClientsSmall, BlockedNever)
    \/ ProcessNext
    \/ RefreshCommit
    \/ RefreshFails
    \/ aggregate_hourly_presence(MaxAggregations)

InitHourly == AtRest(TwoDevices, <<>>) /\ NothingApart

SpecHourly == InitHourly /\ [][NextHourly]_vars

\* The rows of a table without those at the given positions.
RECURSIVE Without(_, _)
Without(rows, positions) ==
    IF rows = <<>> THEN <<>>
    ELSE Without(SubSeq(rows, 1, Len(rows) - 1), positions) \o
         (IF Len(rows) \in positions THEN <<>> ELSE <<rows[Len(rows)]>>)

\* delete_device up to its commit: the request's session selects the device
\* and session.delete loads the device's history rows to cascade to them.
DeleteLoad(device_id) ==
    /\ deleting.request = <<>>
    /\ device_id \in DOMAIN db_devices
    /\ deleting' = [deleting EXCEPT !.request =
                       [device_id |-> device_id,
                        history |-> {k \in DOMAIN db_history :
                                       db_history[k].device_id = device_id}]]
    /\ UNCHANGED <<refresh_vars, closing, presence, aggregated, jobs,
                   requests, single>>

\* The commit of delete_device, made while no other session holds written
\* rows: the history rows the session loaded and the device row are deleted.
\* A refresh in progress that has written nothing keeps the devices it
\* loaded and reads the history table as it is now.
DeleteCommit ==
    /\ deleting.request # <<>>
    /\ pc = "idle" \/ ~Dirty
    /\ LET id == deleting.request.device_id
       IN  /\ db_devices' = [i \in DOMAIN db_devices \ {id} |-> db_devices[i]]
           /\ db_history' = Without(db_history, deleting.request.history)
           /\ deleting' = [request |-> <<>>,
                           gone |-> [i \in DOMAIN deleting.gone \cup {id} |->
                                        IF i = id THEN db_devices[id]
                                        ELSE deleting.gone[i]]]
    /\ s_devices' = IF pc = "idle" THEN db_devices' ELSE s_devices
    /\ s_history' = db_history'
    /\ UNCHANGED <<active_clients, blocked_status, events, todo, pc, now,
                   client_cached, outcome, repeat, dispatched, job, spawned,
                   webhooks, delivered>>
    /\ UNCHANGED <<closing, presence, aggregated, jobs,
                   requests, single>>

\* The commit of delete_device while a refresh holds written rows: the
\* database is locked, the request fails and deletes nothing.
DeleteFails ==
    /\ deleting.request # <<>>
    /\ pc = "processing"
    /\ Dirty
    /\ deleting' = [deleting EXCEPT !.request = <<>>]
    /\ UNCHANGED <<refresh_vars, closing, presence, aggregated, jobs,
                   requests, single>>

\* Two registered devices, no delete request.
InitDelete ==
    /\ AtRest(TwoDevices, <<>>)
    /\ closing = <<>>
    /\ presence = <<>>
    /\ aggregated = 0
    /\ jobs = <<>>
    /\ deleting = [request |-> <<>>, gone |-> <<>>]
    /\ requests = <<>>
    /\ single = <<>>

\* Two registered devices, refreshed while users delete them.
NextDelete ==
    \/ RefreshNoDevices(MaxTimeDelete)
    \/ RefreshStart(MaxTimeDelete, ClientsSmall, BlockedNever)
    \/ ProcessNext
    \/ RefreshCommit
    \/ RefreshFails
    \/ \E device_id \in DOMAIN TwoDevices : DeleteLoad(device_id)
    \/ DeleteCommit
    \/ DeleteFails

SpecDelete == InitDelete /\ [][NextDelete]_vars

\* ------------------------------------------------------------ create_device

\* The characters an address keeps: re.sub removes every other character.
HexDigits ==
    {"0", "1", "2", "3", "4", "5", "6", "7", "8", "9",
     "a", "b", "c", "d", "e", "f", "A", "B", "C", "D", "E", "F"}

\* str.lower on one kept character.
Lower(c) ==
    CASE c = "A" -> "a" [] c = "B" -> "b" [] c = "C" -> "c"
      [] c = "D" -> "d" [] c = "E" -> "e" [] c = "F" -> "f"
      [] OTHER -> c

\* normalize_mac_address raised ValueError.
Invalid == <<>>

\* normalize_mac_address with a slip: the case of the digits is kept.
NormalizeKeepsCase(mac) ==
    LET mac_clean == SelectSeq(mac, LAMBDA c : c \in HexDigits)
    IN  IF Len(mac_clean) # 12 THEN Invalid
        ELSE [i \in 1..17 |->
                 IF i % 3 = 0 THEN ":" ELSE mac_clean[i - (i \div 3)]]

\* normalize_mac_address on an address given as its characters: the hex
\* digits are kept, there must be twelve, and they are joined in pairs with
\* colons, in lower case.
normalize_mac_address(mac) ==
    LET mac_clean == SelectSeq(mac, LAMBDA c : c \in HexDigits)
    IN  IF Len(mac_clean) # 12 THEN Invalid
        ELSE [i \in 1..17 |->
                 IF i % 3 = 0 THEN ":"
                 ELSE Lower(mac_clean[i - (i \div 3)])]

\* The addresses users submit under SpecCreate: one device in lower case with
\* colons, in upper case with dashes and with a stray prefix, another device
\* bare and in dotted upper case, and an address that is too short.
RawMacs ==
    {<<"a", "a", ":", "b", "b", ":", "c", "c", ":", "d", "d", ":",
       "e", "e", ":", "0", "1">>,
     <<"A", "A", "-", "B", "B", "-", "C", "C", "-", "D", "D", "-",
       "E", "E", "-", "0", "1">>,
     <<"x", " ", "a", "A", "b", "B", "c", "C", "d", "D", "e", "E", "0", "1">>,
     <<"a", "a", "b", "b", "c", "c", "d", "d", "e", "e", "0", "2">>,
     <<"A", "A", "B", "B", ".", "C", "C", "D", "D", ".", "E", "E", "0", "2">>,
     <<"a", "a", ":", "b", "b", ":", "c", "c">>}

\* The one descriptor a device is reported with under SpecCreate.
ClientsOne == {WirelessOn("ap1")}

\* The create_device requests that can be in progress at once.
Slots2 == {1, 2}

\* The id the store gives a new device row.
NextId(devices) ==
    IF DOMAIN devices = {} THEN 1 ELSE Max(DOMAIN devices) + 1

\* A response to a create_device request, numbered: the status, the address
\* as the handler saw it, and whether that is the address as it was sent.
Response(n, status, mac, as_sent) ==
    [n |-> n, status |-> status, mac |-> mac, as_sent |-> as_sent]

\* The request body fails validation: the address has not twelve hex digits.
CreateDeviceInvalid(raw) ==
    /\ requests.response.n < MaxRequests
    /\ normalize_mac_address(raw) = Invalid
    /\ requests' = [requests EXCEPT !.response =
                       Response(@.n + 1, 422, Invalid, FALSE)]
    /\ UNCHANGED <<refresh_vars, closing, presence, aggregated, jobs,
                   deleting, single>>

\* create_device up to its commit: the address is normalized and looked up;
\* a tracked address is answered with 400.
CreateDeviceCheck(slot, raw) ==
    /\ requests.response.n < MaxRequests
    /\ slot \notin DOMAIN requests.pending
    /\ LET mac == normalize_mac_address(raw)
       IN  /\ mac # Invalid
           /\ requests' =
                  IF mac \in TrackedMacs(db_devices)
                  THEN [requests EXCEPT !.response =
                           Response(@.n + 1, 400, mac, raw = mac)]
                  ELSE [requests EXCEPT !.pending =
                           [s \in DOMAIN @ \cup {slot} |->
                               IF s = slot THEN [mac |-> mac, as_sent |-> raw = mac]
                               ELSE @[s]]]
    /\ UNCHANGED <<refresh_vars, closing, presence, aggregated, jobs,
                   deleting, single>>

\* CreateDeviceCommit with a slip: the store has no unique constraint on the
\* address.
CreateDeviceCommitUnchecked(slot) ==
    /\ slot \in DOMAIN requests.pending
    /\ pc = "idle"
    /\ LET mac == requests.pending[slot].mac
           as_sent == requests.pending[slot].as_sent
           id == NextId(db_devices)
           left == [s \in DOMAIN requests.pending \ {slot} |->
                       requests.pending[s]]
       IN  /\ db_devices' = [i \in DOMAIN db_devices \cup {id} |->
                                IF i = id THEN NewDevice(id, mac)
                                ELSE db_devices[i]]
           /\ spawned' = spawned \cup {id}
           /\ requests' = [pending |-> left,
                           response |-> Response(requests.response.n + 1,
                                                 201, mac, as_sent)]
    /\ deleting' = [deleting EXCEPT !.gone = <<>>]
    /\ UNCHANGED <<db_history, s_devices, s_history, active_clients,
                   blocked_status, events, todo, pc, now, client_cached,
                   outcome, repeat, dispatched, job, webhooks, delivered>>
    /\ UNCHANGED <<closing, presence, aggregated, jobs, single>>

\* The commit of create_device, made while no refresh is in flight (so no
\* session holds a deleted row): the row is inserted and the task
\* refresh_single_device is spawned, unless the address was inserted since
\* the lookup: then the unique constraint fails the commit.
CreateDeviceCommit(slot) ==
    /\ slot \in DOMAIN requests.pending
    /\ pc = "idle"
    /\ LET mac == requests.pending[slot].mac
           as_sent == requests.pending[slot].as_sent
           id == NextId(db_devices)
           left == [s \in DOMAIN requests.pending \ {slot} |->
                       requests.pending[s]]
       IN  IF mac \in TrackedMacs(db_devices)
           THEN /\ requests' = [pending |-> left,
                                response |-> Response(requests.response.n + 1,
                                                      500, mac, as_sent)]
                /\ UNCHANGED <<db_devices, spawned>>
           ELSE /\ db_devices' = [i \in DOMAIN db_devices \cup {id} |->
                                     IF i = id THEN NewDevice(id, mac)
                                     ELSE db_devices[i]]
                /\ spawned' = spawned \cup {id}
                /\ requests' = [pending |-> left,
                                response |-> Response(requests.response.n + 1,
                                                      201, mac, as_sent)]
    /\ deleting' = [deleting EXCEPT !.gone = <<>>]
    /\ UNCHANGED <<db_history, s_devices, s_history, active_clients,
                   blocked_status, events, todo, pc, now, client_cached,
                   outcome, repeat, dispatched, job, webhooks, delivered>>
    /\ UNCHANGED <<closing, presence, aggregated, jobs, single>>

\* No device is tracked and no request has been made.
InitCreate ==
    /\ AtRest(Empty, <<>>)
    /\ closing = <<>>
    /\ presence = <<>>
    /\ aggregated = 0
    /\ jobs = <<>>
    /\ deleting = [request |-> <<>>, gone |-> <<>>]
    /\ requests = [pending |-> <<>>, response |-> Response(0, 0, Invalid, FALSE)]
    /\ single = <<>>

\* Users register and delete devices while the tracked ones are refreshed.
NextCreate ==
    \/ \E raw \in RawMacs : CreateDeviceInvalid(raw)
    \/ \E slot \in Slots2, raw \in RawMacs : CreateDeviceCheck(slot, raw)
    \/ \E slot \in Slots2 : CreateDeviceCommit(slot)
    \/ \E device_id \in 1..MaxRequests : DeleteLoad(device_id)
    \/ DeleteCommit
    \/ RefreshStart(MaxTimeCreate, ClientsOne, BlockedNever)
    \/ ProcessNext
    \/ RefreshCommit
    \/ RefreshFails

SpecCreate == InitCreate /\ [][NextCreate]_vars

\* ------------------------------------------- aggregation runs that overlap

\* The aggregation runs that can be in flight together: the one
\* start_scheduler calls directly and the one the scheduler starts.
Runs == {"direct", "scheduled"}

\* AcceptsKeys with a slip: the table has no unique key.
AcceptsAnyKeys(rows) == TRUE

\* The table stalker_hourly_presence accepts the rows: no two of them have
\* the same (device, day of week, hour of day).
AcceptsKeys(rows) ==
    \A i, j \in DOMAIN rows :
        (/\ rows[i].device_id = rows[j].device_id
         /\ rows[i].day_of_week = rows[j].day_of_week
         /\ rows[i].hour_of_day = rows[j].hour_of_day) => i = j

\* AggregateLoad with a slip: the run selects the devices as the session of
\* the cycle in flight holds them, committed or not.
AggregateLoadUncommitted(run, limit) ==
    /\ aggregated < limit
    /\ run \notin DOMAIN jobs
    /\ aggregated' = aggregated + 1
    /\ \E slot \in Slots :
          LET selected == ConnectedWireless(s_devices)
              found == {id \in selected :
                           BucketIdx(presence, id, slot[1], slot[2]) # {}}
              hit == UNION {BucketIdx(presence, id, slot[1], slot[2]) :
                               id \in selected}
          IN  IF \/ selected = {}
                 \/ \E id \in selected :
                       Cardinality(BucketIdx(presence, id,
                                             slot[1], slot[2])) > 1
              THEN jobs' = jobs
              ELSE \E order \in Orders(selected \ found) :
                      jobs' = [r \in DOMAIN jobs \cup {run} |->
                                  IF r = run
                                  THEN [updated |-> [i \in hit |->
                                                        AddHour(presence[i])],
                                        created |-> AddMissing(<<>>, order,
                                                               slot[1], slot[2])]
                                  ELSE jobs[r]]
    /\ UNCHANGED <<refresh_vars, closing, presence, deleting, requests, single>>

\* aggregate_hourly_presence up to its commit: the run's session selects the
\* connected wireless devices and looks up the record of each in the slot;
\* the found records get an hour, the missing ones are created, all in the
\* session.  Nothing is selected: the run returns.  A device with more than
\* one record makes scalar_one_or_none raise: the run ends.
AggregateLoad(run, limit) ==
    /\ aggregated < limit
    /\ run \notin DOMAIN jobs
    /\ aggregated' = aggregated + 1
    /\ \E slot \in Slots :
          LET selected == ConnectedWireless(db_devices)
              found == {id \in selected :
                           BucketIdx(presence, id, slot[1], slot[2]) # {}}
              hit == UNION {BucketIdx(presence, id, slot[1], slot[2]) :
                               id \in selected}
          IN  IF \/ selected = {}
                 \/ \E id \in selected :
                       Cardinality(BucketIdx(presence, id,
                                             slot[1], slot[2])) > 1
              THEN jobs' = jobs
              ELSE \E order \in Orders(selected \ found) :
                      jobs' = [r \in DOMAIN jobs \cup {run} |->
                                  IF r = run
                                  THEN [updated |-> [i \in hit |->
                                                        AddHour(presence[i])],
                                        created |-> AddMissing(<<>>, order,
                                                               slot[1], slot[2])]
                                  ELSE jobs[r]]
    /\ UNCHANGED <<refresh_vars, closing, presence, deleting, requests, single>>

\* The commit of a run: the records it changed are written as the session
\* holds them and the records it created are inserted, unless the table
\* refuses the new rows: then the commit raises and the run stores nothing.
AggregateCommit(run) ==
    /\ run \in DOMAIN jobs
    /\ LET written == [i \in DOMAIN presence |->
                          IF i \in DOMAIN jobs[run].updated
                          THEN jobs[run].updated[i] ELSE presence[i]]
           stored == written \o jobs[run].created
       IN  presence' = IF AcceptsKeys(stored) THEN stored ELSE presence
    /\ jobs' = [r \in DOMAIN jobs \ {run} |-> jobs[r]]
    /\ UNCHANGED <<refresh_vars, closing, aggregated, deleting, requests,
                   single>>

\* A run in flight raises (the database is locked by the other run, or is
\* gone): the handler logs it and the run stores nothing.
AggregateFails(run) ==
    /\ run \in DOMAIN jobs
    /\ jobs' = [r \in DOMAIN jobs \ {run} |-> jobs[r]]
    /\ UNCHANGED <<refresh_vars, closing, presence, aggregated, deleting,
                   requests, single>>

\* Two registered devices and no aggregation run.
InitPresence ==
    /\ AtRest(TwoDevices, <<>>)
    /\ closing = <<>>
    /\ presence = <<>>
    /\ aggregated = 0
    /\ jobs = [r \in {} |-> <<>>]
    /\ deleting = <<>>
    /\ requests = <<>>
    /\ single = <<>>

\* Two registered devices, refreshed, and aggregated by runs that overlap.
NextPresence ==
    \/ RefreshStart(MaxTimeHourly, ClientsOne, BlockedNever)
    \/ ProcessNext
    \/ RefreshCommit
    \/ \E run \in Runs : AggregateLoad(run, MaxAggregations)
    \/ \E run \in Runs : AggregateCommit(run)
    \/ \E run \in Runs : AggregateFails(run)

SpecPresence == InitPresence /\ [][NextPresence]_vars

\* ------------------------------- refresh_single_device beside a full cycle

\* The history table after another session commits the table committed:
\* the cycle's session keeps the rows it changed and the rows it added, which
\* get their ids after the rows committed meanwhile.
Beside(committed) ==
    [k \in 1..Len(db_history) |->
        IF s_history[k] # db_history[k] THEN s_history[k] ELSE committed[k]]
    \o SubSeq(committed, Len(db_history) + 1, Len(committed))
    \o SubSeq(s_history, Len(db_history) + 1, Len(s_history))

\* refresh_single_device up to the call of process_device, whatever the
\* cycle is doing: the task's session loads the device and get_clients
\* returns a snapshot.
SingleLoad(clients, queries) ==
    /\ single = <<>>
    /\ \E id \in spawned :
       \E snapshot \in Snapshots({db_devices[id].mac_address}, clients) :
       \E query \in queries :
          /\ spawned' = spawned \ {id}
          /\ single' = [stage |-> "loaded", id |-> id,
                        device |-> db_devices[id], active |-> snapshot,
                        query |-> query]
    /\ client_cached' = TRUE
    /\ UNCHANGED <<db_devices, db_history, s_devices, s_history,
                   active_clients, blocked_status, events, todo, pc, now,
                   outcome, repeat, dispatched, job, webhooks, delivered>>
    /\ UNCHANGED <<closing, presence, aggregated, jobs, deleting, requests>>

\* The rest of refresh_single_device: process_device on the loaded row,
\* against the intervals stored now, and the commit.  The cycle's session
\* keeps the device as it loaded it.
SingleFinish ==
    /\ single # <<>>
    /\ single.stage = "loaded"
    /\ LET id == single.id
           r == process_device(single.device, db_history, single.active,
                               is_client_blocked(single.query), now)
       IN  /\ db_devices' = [db_devices EXCEPT ![id] = r.device]
           /\ db_history' = r.history
           /\ s_history' = IF pc = "processing" THEN Beside(r.history)
                           ELSE r.history
           /\ s_devices' = IF pc = "processing" THEN s_devices
                           ELSE db_devices'
           /\ single' = [stage |-> "done", id |-> id, events |-> r.events,
                         before |-> db_devices[id],
                         cycle |-> IF pc = "processing"
                                      /\ id \in DOMAIN s_devices
                                   THEN now ELSE 0 - 1]
    /\ UNCHANGED <<active_clients, blocked_status, events, todo, pc, now,
                   client_cached, outcome, repeat, dispatched, job, spawned,
                   webhooks, delivered>>
    /\ UNCHANGED <<closing, presence, aggregated, jobs, deleting, requests>>

\* One device is registered while the engine runs; its task and the cycles
\* interleave.
NextSingle ==
    \/ create_device("m1")
    \/ RefreshStart(MaxTimeSingle, ClientsOne, BlockedNever)
    \/ ProcessNext
    \/ RefreshCommit
    \/ SingleLoad(ClientsOne, BlockedNever)
    \/ SingleFinish

SpecSingle == Init /\ [][NextSingle]_vars

\* -------------------------------- block and unblock requests beside a cycle

\* block_device (flag TRUE) or unblock_device (flag FALSE) up to the answer
\* of the controller: the request's session selects the device and
\* block_client or unblock_client succeeds, so the controller holds the new
\* status and a cycle that has not queried the device yet will meet it.  The
\* user flips the status; one request flips it during one cycle.
BlockClient(id, flag) ==
    /\ requests.stage # "called"
    /\ ~(requests.stage = "done" /\ requests.cycle = now /\ pc = "processing")
    /\ id \in DOMAIN db_devices
    /\ requests.controller # flag
    /\ requests' = [stage |-> "called", id |-> id, flag |-> flag,
                    before |-> db_devices[id].is_blocked, cycle |-> 0 - 1,
                    controller |-> flag]
    /\ blocked_status' =
           IF pc = "processing" /\ id \in todo
           THEN [blocked_status EXCEPT
                    ![db_devices[id].mac_address] = LookupUser(flag)]
           ELSE blocked_status
    /\ UNCHANGED <<db_devices, db_history, s_devices, s_history,
                   active_clients, events, todo, pc, now, client_cached,
                   outcome, repeat, dispatched, job, spawned, webhooks,
                   delivered>>
    /\ UNCHANGED <<closing, presence, aggregated, jobs, deleting, single>>

\* The rest of block_device or unblock_device: is_blocked is set on the
\* row, the session commits and trigger_webhooks is called with `blocked` or
\* `unblocked`, whatever the row held.
BlockCommit ==
    /\ requests.stage = "called"
    /\ LET id == requests.id
       IN  /\ db_devices' = [db_devices EXCEPT
                                ![id].is_blocked = requests.flag]
           /\ s_devices' = IF pc = "processing" THEN s_devices
                           ELSE db_devices'
           /\ requests' = [requests EXCEPT
                              !.stage = "done",
                              !.before = db_devices[id].is_blocked,
                              !.cycle = IF pc = "processing"
                                           /\ id \in DOMAIN s_devices
                                        THEN now ELSE 0 - 1]
    /\ UNCHANGED <<db_history, s_history, active_clients, blocked_status,
                   events, todo, pc, now, client_cached, outcome, repeat,
                   dispatched, job, spawned, webhooks, delivered>>
    /\ UNCHANGED <<closing, presence, aggregated, jobs, deleting, single>>

\* One registered device, not blocked, and no request yet.
InitBlock ==
    /\ AtRest([i \in {1} |-> NewDevice(1, "m1")], <<>>)
    /\ closing = <<>>
    /\ presence = <<>>
    /\ aggregated = 0
    /\ jobs = <<>>
    /\ deleting = <<>>
    /\ single = <<>>
    /\ requests = [stage |-> "none", id |-> 1, flag |-> FALSE,
                   before |-> FALSE, cycle |-> 0 - 1, controller |-> FALSE]

\* One device, blocked and unblocked through the API while cycles run; the
\* cycle's query meets the status the controller holds.
NextBlock ==
    \/ \E flag \in BOOLEAN : BlockClient(1, flag)
    \/ BlockCommit
    \/ RefreshStart(MaxTimeBlock, ClientsOne,
                    {LookupUser(requests.controller)})
    \/ ProcessNext
    \/ RefreshCommit

SpecBlock == InitBlock /\ [][NextBlock]_vars

\* ------------------------------------ aggregation runs on the wall clock

\* now.weekday() and now.hour of an instant of the wall clock, which starts
\* on a Monday at 14:00.
SlotOf(clock) == <<0, 14 + (clock \div TicksPerHour)>>

\* The instant is the top of an hour: CronTrigger(minute=0) fires.
TopOfHour(clock) == clock % TicksPerHour = 0

\* The run of aggregate_hourly_presence at the instant of the clock: the
\* bucket of each connected wireless device in the slot of the instant gets
\* an hour, or is created.
AggregateNow ==
    LET slot == SlotOf(jobs.clock)
        selected == ConnectedWireless(db_devices)
        found == {id \in selected :
                     BucketIdx(presence, id, slot[1], slot[2]) # {}}
        hit == UNION {BucketIdx(presence, id, slot[1], slot[2]) :
                         id \in selected}
        updated == [i \in DOMAIN presence |->
                       IF i \in hit THEN AddHour(presence[i])
                       ELSE presence[i]]
    IN  /\ aggregated' = aggregated + 1
        /\ \E order \in Orders(selected \ found) :
              presence' = AddMissing(updated, order, slot[1], slot[2])

\* Time passes.
ClockTicks ==
    /\ jobs.clock < MaxClock
    /\ jobs' = [jobs EXCEPT !.clock = @ + 1]
    /\ UNCHANGED <<refresh_vars, closing, presence, aggregated, deleting,
                   requests, single>>

\* The application starts: start_scheduler adds the jobs, starts the
\* scheduler and awaits aggregate_hourly_presence (after the refresh, which
\* finds the network as the store has it).  The cron trigger fires next at
\* the next top of an hour.
Startup ==
    /\ ~jobs.running
    /\ jobs.starts < MaxStarts
    /\ jobs' = [jobs EXCEPT !.running = TRUE, !.starts = @ + 1,
                            !.fired = jobs.clock]
    /\ AggregateNow
    /\ UNCHANGED <<refresh_vars, closing, deleting, requests, single>>

\* stop_scheduler: the application shuts down; the store stays.
Shutdown ==
    /\ jobs.running
    /\ jobs' = [jobs EXCEPT !.running = FALSE]
    /\ UNCHANGED <<refresh_vars, closing, presence, aggregated, deleting,
                   requests, single>>

\* The cron trigger fires at the top of an hour and the scheduler runs
\* aggregate_hourly_presence.
CronRun ==
    /\ jobs.running
    /\ TopOfHour(jobs.clock)
    /\ jobs.fired # jobs.clock
    /\ jobs' = [jobs EXCEPT !.fired = jobs.clock]
    /\ AggregateNow
    /\ UNCHANGED <<refresh_vars, closing, deleting, requests, single>>

\* A device connected to an access point and a device not connected; the
\* application is not running and no hour is aggregated.
InitHours ==
    /\ AtRest([i \in {1, 2} |->
                  IF i = 1
                  THEN [NewDevice(1, "m1") EXCEPT !.is_connected = TRUE,
                                                  !.current_ap_mac = "ap1"]
                  ELSE NewDevice(2, "m2")], <<>>)
    /\ closing = <<>>
    /\ presence = <<>>
    /\ aggregated = 0
    /\ deleting = <<>>
    /\ requests = <<>>
    /\ single = <<>>
    /\ jobs = [clock |-> 0, running |-> FALSE, starts |-> 0, fired |-> 0 - 1]

NextHours ==
    \/ ClockTicks
    \/ Startup
    \/ Shutdown
    \/ CronRun

SpecHours == InitHours /\ [][NextHours]_vars

\* Two registered devices; the cycles, failing ones included, interleave
\* with the runs the scheduler starts of the aggregation job, one at a time.
NextTwoJobs ==
    \/ RefreshStart(MaxTimeHourly, ClientsOne, BlockedNever)
    \/ ProcessNext
    \/ RefreshCommit
    \/ RefreshFails
    \/ AggregateLoad("scheduled", MaxAggregations)
    \/ AggregateCommit("scheduled")
    \/ AggregateFails("scheduled")

SpecTwoJobs == InitPresence /\ [][NextTwoJobs]_vars

\* ------------------------------------------------ threat events (polling)

\* str() of a timestamp of the controller, or of the '' that stands for a
\* missing one.
Str(time) == IF time = NoneInt THEN "" ELSE IF time[1] = 1 THEN "1" ELSE "2"

\* A raw event of the controller: in the v2 format ('ips' present) it has an
\* id and a time, in the legacy format an _id, a unique_alertid and a
\* timestamp; any of them can be missing.  ignore says whether an enabled
\* ignore rule matches the event.
RawEvents ==
    [v2 : {TRUE}, id : {"e1", None}, alertid : {None},
     time : {NoneInt, Some(1)}, ignore : {FALSE}]
    \cup {[v2 |-> TRUE, id |-> "e1", alertid |-> None, time |-> Some(1),
           ignore |-> TRUE]}
    \cup [v2 : {FALSE}, id : {None}, alertid : {"a1", None},
          time : {Some(1)}, ignore : {FALSE}]
    \cup {[v2 |-> FALSE, id |-> "e1", alertid |-> None, time |-> Some(1),
           ignore |-> FALSE]}

\* The unifi_event_id parse_unifi_event gives an event: the first of its
\* identifiers that is present, else its time as a string.
parse_unifi_event(event) ==
    IF event.v2
    THEN IF event.id # None THEN event.id ELSE Str(event.time)
    ELSE IF event.id # None THEN event.id
         ELSE IF event.alertid # None THEN event.alertid
              ELSE Str(event.time)

\* The batches get_ips_events can return.
Batches ==
    UNION {[1..n -> RawEvents] : n \in 0..MaxBatch}

\* No threat event is stored and no poll is in progress.
InitThreats ==
    /\ AtRest(Empty, <<>>)
    /\ closing = <<>>
    /\ presence = <<>>
    /\ aggregated = 0
    /\ deleting = <<>>
    /\ requests = <<>>
    /\ single = <<>>
    /\ jobs = [polls |-> 0, polling |-> FALSE, batch |-> <<>>,
               stored |-> <<>>, pending |-> <<>>, calls |-> {}]

\* refresh_threat_events up to its loop: get_ips_events returns a batch.
ThreatsFetch ==
    /\ ~jobs.polling
    /\ jobs.polls < MaxPolls
    /\ \E batch \in Batches :
          jobs' = [jobs EXCEPT !.polls = @ + 1, !.polling = TRUE,
                               !.batch = batch, !.pending = <<>>]
    /\ UNCHANGED <<refresh_vars, closing, presence, aggregated, deleting,
                   requests, single>>

\* ThreatsNext with a slip: the lookup meets the committed events only, not
\* the ones the session has added in this poll.
ThreatsNextCommittedOnly ==
    /\ jobs.polling
    /\ jobs.batch # <<>>
    /\ LET event == Head(jobs.batch)
           unifi_event_id == parse_unifi_event(event)
           existing == {i \in DOMAIN jobs.stored :
                           jobs.stored[i].unifi_event_id = unifi_event_id}
       IN  jobs' = IF existing # {}
                   THEN [jobs EXCEPT !.batch = Tail(@)]
                   ELSE [jobs EXCEPT
                            !.batch = Tail(@),
                            !.pending = Append(@,
                                [unifi_event_id |-> unifi_event_id,
                                 ignored |-> event.ignore]),
                            !.calls = IF event.ignore THEN @
                                      ELSE @ \cup {<<jobs.polls,
                                                     unifi_event_id>>}]
    /\ UNCHANGED <<refresh_vars, closing, presence, aggregated, deleting,
                   requests, single>>

\* One turn of the loop of refresh_threat_events: the event is parsed and
\* looked up by its unifi_event_id, among the committed events and, the
\* session flushing before it queries, the events added in this poll.  A
\* found event is skipped; a new one is added, and trigger_threat_webhooks
\* is called for it unless an ignore rule matches.
ThreatsNext ==
    /\ jobs.polling
    /\ jobs.batch # <<>>
    /\ LET event == Head(jobs.batch)
           unifi_event_id == parse_unifi_event(event)
           seen == jobs.stored \o jobs.pending
           existing == {i \in DOMAIN seen :
                           seen[i].unifi_event_id = unifi_event_id}
       IN  jobs' = IF existing # {}
                   THEN [jobs EXCEPT !.batch = Tail(@)]
                   ELSE [jobs EXCEPT
                            !.batch = Tail(@),
                            !.pending = Append(@,
                                [unifi_event_id |-> unifi_event_id,
                                 ignored |-> event.ignore]),
                            !.calls = IF event.ignore THEN @
                                      ELSE @ \cup {<<jobs.polls,
                                                     unifi_event_id>>}]
    /\ UNCHANGED <<refresh_vars, closing, presence, aggregated, deleting,
                   requests, single>>

\* session.commit() after the loop: the events added are stored.
ThreatsCommit ==
    /\ jobs.polling
    /\ jobs.batch = <<>>
    /\ jobs' = [jobs EXCEPT !.polling = FALSE, !.pending = <<>>,
                            !.stored = @ \o jobs.pending]
    /\ UNCHANGED <<refresh_vars, closing, presence, aggregated, deleting,
                   requests, single>>

\* An exception in the poll: the session is dropped with the events it
\* added; the webhooks called stay called.
ThreatsFail ==
    /\ jobs.polling
    /\ jobs' = [jobs EXCEPT !.polling = FALSE, !.pending = <<>>,
                            !.batch = <<>>]
    /\ UNCHANGED <<refresh_vars, closing, presence, aggregated, deleting,
                   requests, single>>

NextThreats ==
    \/ ThreatsFetch
    \/ ThreatsNext
    \/ ThreatsCommit
    \/ ThreatsFail

SpecThreats == InitThreats /\ [][NextThreats]_vars

\* The ids of the two jobs start_scheduler adds.
JobIds == {"refresh_tracked_devices", "aggregate_hourly_presence"}

\* The scheduler is not started: no job is added, nothing runs.
InitJobs ==
    /\ AtRest(Empty, <<>>)
    /\ closing = <<>>
    /\ presence = <<>>
    /\ aggregated = 0
    /\ deleting = <<>>
    /\ requests = <<>>
    /\ single = <<>>
    /\ jobs = [startup |-> "none",
               scheduled |-> [j \in JobIds |-> 0],
               fired |-> [j \in JobIds |-> 0]]

\* start_scheduler up to its first await: both jobs are added, the scheduler
\* is started, and refresh_tracked_devices is called directly.
start_scheduler ==
    /\ jobs.startup = "none"
    /\ jobs' = [jobs EXCEPT !.startup = "refresh_tracked_devices"]
    /\ UNCHANGED <<refresh_vars, closing, presence, aggregated, deleting,
                   requests, single>>

\* The job start_scheduler awaits returns: after the refresh it calls
\* aggregate_hourly_presence directly, after that it is done.
DirectRunEnds ==
    /\ jobs.startup \in JobIds
    /\ jobs' = [jobs EXCEPT !.startup =
                    IF @ = "refresh_tracked_devices"
                    THEN "aggregate_hourly_presence" ELSE "done"]
    /\ UNCHANGED <<refresh_vars, closing, presence, aggregated, deleting,
                   requests, single>>

\* The trigger of a job fires while the scheduler runs: the scheduler starts
\* a run of the job unless max_instances runs it started are in progress,
\* in which case the firing is skipped.
TriggerFires(j) ==
    /\ jobs.startup # "none"
    /\ jobs.fired[j] < MaxFirings
    /\ jobs' = [jobs EXCEPT
                    !.fired[j] = @ + 1,
                    !.scheduled[j] = IF @ < MaxInstances THEN @ + 1 ELSE @]
    /\ UNCHANGED <<refresh_vars, closing, presence, aggregated, deleting,
                   requests, single>>

\* A run the scheduler started returns.
ScheduledRunEnds(j) ==
    /\ jobs.scheduled[j] > 0
    /\ jobs' = [jobs EXCEPT !.scheduled[j] = @ - 1]
    /\ UNCHANGED <<refresh_vars, closing, presence, aggregated, deleting,
                   requests, single>>

NextJobs ==
    \/ start_scheduler
    \/ DirectRunEnds
    \/ \E j \in JobIds : TriggerFires(j)
    \/ \E j \in JobIds : ScheduledRunEnds(j)

SpecJobs == InitJobs /\ [][NextJobs]_vars

\* --------------------------------------------------- vocabulary of the claims

\* The cycle in flight has processed device id: db_devices and db_history
\* hold what was stored before the cycle, s_devices and s_history what the
\* cycle has made of it, events what it has emitted.
Processed(id) ==
    pc = "processing" /\ id \in DOMAIN s_devices /\ id \notin todo

Reported(id) == db_devices[id].mac_address \in DOMAIN active_clients

ClientOf(id) == active_clients[db_devices[id].mac_address]

\* Rows of the device that the cycle in flight has opened.
OpenedBy(id) ==
    {i \in (Len(db_history) + 1)..Len(s_history) : s_history[i].device_id = id}

\* Rows of the device that the cycle in flight has closed.
ClosedBy(id) ==
    {i \in OpenIdx(db_history, id) : s_history[i].disconnected_at # NoneInt}

\* Number of trigger_webhooks calls of one type for the device in the cycle.
Notified(id, type) ==
    Cardinality({k \in 1..Len(events) :
        /\ events[k].kind = "webhook"
        /\ events[k].device_id = id
        /\ events[k].event_type = type})

\* The cycle has closed the row close_connection_history selects, with its
\* duration, when the device had an open row.
ClosedMostRecent(id) ==
    OpenIdx(db_history, id) # {} =>
        LET i == MostRecentOpen(db_history, id)
        IN  /\ ClosedBy(id) = {i}
            /\ s_history[i] = CloseRow(db_history[i], now)

\* The descriptor names the access point or the switch the device is on.
HasIdentity(client) ==
    IF client.is_wired THEN Truthy(client.sw_mac) ELSE Truthy(client.ap_mac)

\* The location a descriptor reports, as a history row records it.
AtReported(row, client) ==
    /\ row.is_wired = client.is_wired
    /\ row.disconnected_at = NoneInt
    /\ IF client.is_wired
       THEN row.switch_mac = client.sw_mac /\ row.switch_port = client.sw_port
       ELSE row.ap_mac = client.ap_mac

\* The cycle has opened exactly one row for the device, at the reported
\* location.
OpenedOneAtReported(id) ==
    /\ Cardinality(OpenedBy(id)) = 1
    /\ \A i \in OpenedBy(id) : AtReported(s_history[i], ClientOf(id))

\* ------------------------------------------------------------------- claims

\* C1: after any completed reconciliation cycle every tracked device has at
\* most one connection interval whose disconnected_at is null.
C1_AtMostOneOpenInterval ==
    pc = "idle" =>
        \A id \in DOMAIN db_devices :
            Cardinality(OpenIdx(db_history, id)) <= 1

\* C2: a device stored as disconnected that is present in the snapshot, wired
\* or wireless, gets exactly one new interval at the reported location, is
\* marked connected, and produces exactly one connected notification and no
\* roamed notification.
C2_ConnectOpensAndNotifies ==
    \A id \in DOMAIN s_devices :
        (/\ Processed(id)
         /\ ~db_devices[id].is_connected
         /\ Reported(id)
         /\ HasIdentity(ClientOf(id))) =>
            /\ OpenedOneAtReported(id)
            /\ s_devices[id].is_connected
            /\ Notified(id, "connected") = 1
            /\ Notified(id, "roamed") = 0

\* C3: a connected device that appears on the other medium has its current
\* open interval closed, exactly one new interval opened at the new location
\* and exactly one roamed notification emitted.
C3_MediumChangeIsRoam ==
    \A id \in DOMAIN s_devices :
        (/\ Processed(id)
         /\ db_devices[id].is_connected
         /\ Reported(id)
         /\ HasIdentity(ClientOf(id))
         /\ db_devices[id].is_wired # ClientOf(id).is_wired) =>
            /\ ClosedMostRecent(id)
            /\ OpenedOneAtReported(id)
            /\ Notified(id, "roamed") = 1

\* The stored device is connected and wireless on an access point, and the
\* snapshot reports it wireless on another access point.
RoamsToOtherAp(id) ==
    /\ db_devices[id].is_connected
    /\ ~db_devices[id].is_wired
    /\ Truthy(db_devices[id].current_ap_mac)
    /\ Reported(id)
    /\ ~ClientOf(id).is_wired
    /\ Truthy(ClientOf(id).ap_mac)
    /\ ClientOf(id).ap_mac # db_devices[id].current_ap_mac

\* C4: a connected wireless device reported on another access point than the
\* stored one has its prior open interval closed with the computed duration,
\* one new open interval at the new access point, exactly one roamed
\* notification and no connected or disconnected notification.
C4_RoamClosesOpensNotifiesOnce ==
    \A id \in DOMAIN s_devices :
        (Processed(id) /\ RoamsToOtherAp(id)) =>
            /\ ClosedMostRecent(id)
            /\ OpenedOneAtReported(id)
            /\ s_devices[id].current_ap_mac = ClientOf(id).ap_mac
            /\ Notified(id, "roamed") = 1
            /\ Notified(id, "connected") = 0
            /\ Notified(id, "disconnected") = 0

\* A roam that closed an open interval with a positive duration.
C4_Witness ==
    \E id \in DOMAIN s_devices :
        /\ Processed(id) /\ RoamsToOtherAp(id)
        /\ \E i \in ClosedBy(id) :
              /\ db_history[i].ap_mac = "ap1"
              /\ s_history[i].duration_seconds = Some(2)
        /\ \E j \in OpenedBy(id) : s_history[j].ap_mac = "ap2"

C6_SecondRunIsIdle ==
    (pc = "processing" /\ repeat) =>
        /\ events = <<>>
        /\ s_history = db_history

\* A repeated cycle that has processed a connected, blocked device.
C6_Witness ==
    /\ pc = "processing" /\ repeat /\ todo = {}
    /\ \E id \in DOMAIN s_devices :
          /\ s_devices[id].is_connected
          /\ s_devices[id].is_blocked
          /\ OpenIdx(s_history, id) # {}

C8_OneNotificationPerTransition ==
    (pc = "processing" /\ todo = {}) =>
        \A type \in EventTypes : dispatched[type] = Calls(events, type)

\* C9: a cycle that fails after processing devices persists none of its
\* device or interval changes: no step of a cycle other than its commit
\* changes a stored row.
C9_FailedCycleStoresNothing ==
    [][(/\ pc = "processing"
        /\ pc' = "processing" \/ outcome' \in {"failed", "rolled_back"}) =>
           (db_devices' = db_devices /\ db_history' = db_history)]_vars

\* A cycle over two devices failed with uncommitted changes, and the store
\* still shows both devices as never seen.
C9_Witness ==
    /\ pc = "idle"
    /\ outcome = "rolled_back"
    /\ Cardinality(DOMAIN db_devices) = 2
    /\ db_history = <<>>
    /\ \A id \in DOMAIN db_devices :
          db_devices[id] = NewDevice(id, db_devices[id].mac_address)

\* C10: when get_clients fails, the refresh changes no stored row, dispatches
\* nothing, invalidates the shared client and ends without a snapshot until
\* the next tick.
C10_FetchFailureAbortsCycle ==
    [][(now' # now /\ outcome' = "fetch_failed") =>
           /\ db_devices' = db_devices
           /\ db_history' = db_history
           /\ dispatched' = dispatched
           /\ events' = <<>>
           /\ ~client_cached'
           /\ pc' = "idle"
           /\ todo' = {}
           /\ active_clients' = Empty]_vars

\* A fetch failed while a connected device was tracked: the shared client is
\* gone and the device is as it was.
C10_Witness ==
    /\ pc = "idle"
    /\ outcome = "fetch_failed"
    /\ ~client_cached
    /\ \E id \in DOMAIN db_devices :
          db_devices[id].is_connected /\ OpenIdx(db_history, id) # {}

\* The blocked-status lookup of the device fails in the cycle in flight.
LookupFailed(id) ==
    blocked_status[db_devices[id].mac_address].kind \in {"failed", "no_session"}

\* The connectivity transition process_device makes for the device, the
\* blocked check left aside.
Connectivity(id) ==
    IF Reported(id)
    THEN OnlineBranch(db_devices[id], db_history, ClientOf(id), now)
    ELSE OfflineBranch(db_devices[id], db_history, now)

\* C11: when the blocked-status lookup of a device fails during a cycle, the
\* device keeps its stored is_blocked flag and gets no blocked or unblocked
\* notification, while its connectivity transition is made as usual.
C11_LookupFailureSkipsCheck ==
    \A id \in DOMAIN s_devices :
        (Processed(id) /\ LookupFailed(id)) =>
            /\ s_devices[id].is_blocked = db_devices[id].is_blocked
            /\ Notified(id, "blocked") = 0
            /\ Notified(id, "unblocked") = 0
            /\ s_devices[id] =
                   [Connectivity(id).device EXCEPT
                       !.is_blocked = db_devices[id].is_blocked]
            /\ s_history = Connectivity(id).history

\* The wireless attachment group of a device row is populated.
HasApGroup(device) == device.current_ap_mac # None

\* The wired attachment group of a device row is populated.
HasSwitchGroup(device) ==
    device.current_switch_mac # None /\ device.current_switch_port # None

\* No field of either attachment group of a device row is set.
NoGroup(device) ==
    /\ device.current_ap_mac = None
    /\ device.current_switch_mac = None
    /\ device.current_switch_port = None

\* C19: after any completed cycle a connected device has exactly one of the
\* two attachment groups populated (access point, or switch and port), and a
\* disconnected device has both groups null.
C19_OneAttachmentGroup ==
    (pc = "idle" /\ outcome = "committed") =>
        \A id \in DOMAIN db_devices :
            IF db_devices[id].is_connected
            THEN HasApGroup(db_devices[id]) # HasSwitchGroup(db_devices[id])
            ELSE NoGroup(db_devices[id])

\* The webhook calls the cycle in flight has made for the device.
WebhooksOf(id) ==
    {k \in 1..Len(events) :
        events[k].kind = "webhook" /\ events[k].device_id = id}

\* The closing times of the intervals of the device that were stored closed
\* before the cycle.
ClosedTimes(id) ==
    {db_history[i].disconnected_at[1] : i \in ClosedIdx(db_history, id)}

\* C15: a connected notification carries as offline_duration the seconds
\* between the connect and the latest disconnected_at among the device's
\* closed intervals, null when it has none; a notification of any other type
\* carries none.
C15_OfflineDurationOfConnect ==
    \A id \in DOMAIN s_devices :
        Processed(id) =>
            \A k \in WebhooksOf(id) :
                IF events[k].event_type = "connected" /\ ClosedTimes(id) # {}
                THEN \E d \in ClosedTimes(id) :
                        /\ \A e \in ClosedTimes(id) : e <= d
                        /\ events[k].offline_duration = Some(now - d)
                ELSE events[k].offline_duration = NoneInt

\* A device with two closed intervals, the later one closed a second ago, is
\* back and notified as connected after one second offline.
C15_Witness ==
    \E id \in DOMAIN s_devices :
        /\ Processed(id)
        /\ Cardinality(ClosedTimes(id)) = 2
        /\ \E k \in WebhooksOf(id) :
              /\ events[k].event_type = "connected"
              /\ events[k].offline_duration = Some(1)

\* The loop of a cycle run in a given order on the stored rows: the device
\* rows, the history table and the events it ends with.
RECURSIVE RunInOrder(_, _, _, _)
RunInOrder(order, devices, hist, evs) ==
    IF order = <<>> THEN [devices |-> devices, history |-> hist, events |-> evs]
    ELSE LET id == Head(order)
             r == process_device(devices[id], hist, active_clients,
                                 is_client_blocked(
                                     blocked_status[devices[id].mac_address]),
                                 now)
         IN  RunInOrder(Tail(order), [devices EXCEPT ![id] = r.device],
                        r.history, evs \o r.events)

\* The rows of one device in a history table, in the order they were opened.
RowsOf(hist, id) == SelectSeq(hist, LAMBDA row : row.device_id = id)

\* Two runs end with the same device rows, the same intervals per device and
\* the same set of broadcasts and notifications.
SameOutcome(a, b) ==
    /\ a.devices = b.devices
    /\ \A id \in DOMAIN a.devices :
           RowsOf(a.history, id) = RowsOf(b.history, id)
    /\ {a.events[k] : k \in DOMAIN a.events} =
           {b.events[k] : k \in DOMAIN b.events}

\* C16: within one completed cycle, processing the tracked devices in any
\* order yields the same final device rows, the same interval opens and
\* closes and the same set of notifications as the order the loop took.
C16_OrderIndependent ==
    (pc = "processing" /\ job = "cycle" /\ todo = {}) =>
        \A order \in Orders(DOMAIN s_devices) :
            SameOutcome(RunInOrder(order, db_devices, db_history, <<>>),
                        [devices |-> s_devices, history |-> s_history,
                         events |-> events])

\* A loop over two devices has closed an interval of one and opened an
\* interval for the other.
C16_Witness ==
    /\ pc = "processing" /\ job = "cycle" /\ todo = {}
    /\ \E a, b \in DOMAIN s_devices :
          /\ a # b
          /\ ClosedBy(a) # {} /\ OpenedBy(a) = {}
          /\ OpenedBy(b) # {}
          /\ Notified(a, "disconnected") = 1
          /\ Notified(b, "roamed") = 1

\* C14: refresh_single_device run on a device leaves, for that device, the
\* device fields, the interval opens and closes and the notifications that a
\* full refresh_tracked_devices cycle produces from the same stored state and
\* snapshot, whatever the order of the cycle's loop.
C14_SingleRefreshAsFullCycle ==
    (pc = "processing" /\ job = "single" /\ todo = {}) =>
        \A order \in Orders(DOMAIN db_devices) :
            LET full == RunInOrder(order, db_devices, db_history, <<>>)
            IN  \A id \in DOMAIN s_devices :
                    /\ s_devices[id] = full.devices[id]
                    /\ RowsOf(s_history, id) = RowsOf(full.history, id)
                    /\ events = SelectSeq(full.events,
                                          LAMBDA e : e.device_id = id)

\* A single-device refresh ran on a device that a cycle had already seen
\* connected: it closed the interval and notified the disconnect.
C14_Witness ==
    /\ pc = "processing" /\ job = "single" /\ todo = {}
    /\ Cardinality(DOMAIN db_devices) = 2
    /\ \E id \in DOMAIN s_devices :
          /\ db_devices[id].is_connected
          /\ ClosedBy(id) # {}
          /\ Notified(id, "disconnected") = 1

\* A delivery call of the set did not deliver: it returned False or raised.
SomeFailed(attempts) == \E a \in attempts : a.result # "delivered"

\* The step is a complete call of process_device on a device of the loop,
\* with a delivery call to every target sink of every notification.
CompletesDevice ==
    /\ pc' = "processing"
    /\ \E id \in todo :
          LET r == process_device(s_devices[id], s_history, active_clients,
                                  is_client_blocked(
                                      blocked_status[s_devices[id].mac_address]),
                                  now)
          IN  /\ todo' = todo \ {id}
              /\ s_devices' = [s_devices EXCEPT ![id] = r.device]
              /\ s_history' = r.history
              /\ events' = events \o r.events
              /\ \A c \in Deliveries(r.events, webhooks) :
                     \E a \in delivered' \ delivered :
                        /\ a.sink = c[2]
                        /\ a.device_id = id
                        /\ a.event_type = r.events[c[1]].event_type

\* C12: a delivery that fails never aborts or rolls back the cycle: the step
\* in which it fails still calls every other target sink and completes the
\* device, the loop goes on, and the commit of a cycle with failed deliveries
\* stores every row the cycle changed.
C12_FailedDeliveryNeverAborts ==
    [][/\ SomeFailed(delivered' \ delivered) => CompletesDevice
       /\ (SomeFailed(delivered) /\ outcome' = "committed") =>
              /\ \A id \in DOMAIN s_devices : db_devices'[id] = s_devices[id]
              /\ db_history' = s_history]_vars

\* A cycle at its commit point: the first sink raised on the connect of one
\* device, the second sink was still called for it, and the other device was
\* processed and notified as well.
C12_Witness ==
    /\ pc = "processing" /\ todo = {}
    /\ \E a, b \in DOMAIN s_devices :
          /\ a # b
          /\ [sink |-> 1, event_type |-> "connected", device_id |-> a,
              offline_duration |-> NoneInt, result |-> "raised"] \in delivered
          /\ \E x \in delivered :
                x.sink = 2 /\ x.device_id = a /\ x.event_type = "connected"
          /\ \E y \in delivered : y.device_id = b
          /\ OpenedBy(a) # {} /\ OpenedBy(b) # {}

\* The instant of a datetime on the UTC time line, in ticks: a reading
\* without a time zone is taken as UTC.
UtcInstant(dt) == IF dt.aware THEN dt.wall - dt.offset ELSE dt.wall

\* d is the number of whole seconds in a difference given in ticks.
WholeSeconds(d, ticks) ==
    IF ticks >= 0
    THEN d * TicksPerSecond <= ticks /\ ticks < (d + 1) * TicksPerSecond
    ELSE (-d) * TicksPerSecond <= -ticks /\ -ticks < (1 - d) * TicksPerSecond

\* C18: for any connected_at, with an explicit time zone or with none (then
\* taken as UTC), close_connection_history stores as duration_seconds the
\* whole seconds between the close time and connected_at, both on the UTC
\* time line.
C18_DurationInUtc ==
    (closing # <<>> /\ closing.duration_seconds # NoneInt) =>
        WholeSeconds(closing.duration_seconds[1],
                     UtcInstant(closing.disconnected_at)
                         - UtcInstant(closing.connected_at))

\* An interval opened in a zone ahead of UTC was closed: three seconds and a
\* half lie between the two instants and three seconds are stored.
C18_Witness ==
    /\ closing # <<>>
    /\ closing.connected_at.aware
    /\ closing.connected_at.offset > 0
    /\ closing.connected_at.wall = 2 * TicksPerSecond
    /\ closing.disconnected_at.wall = 3 * TicksPerSecond + 1
    /\ closing.duration_seconds = Some(3)

\* The step is an aggregation tick at the slot: each connected wireless
\* device has 60 minutes and one sample more in its bucket of the slot, or a
\* new bucket with 60 and 1, and nothing else differs.
Credits(slot) ==
    LET credited == {id \in DOMAIN db_devices :
                        /\ db_devices[id].is_connected
                        /\ ~db_devices[id].is_wired}
        old(id) == BucketIdx(presence, id, slot[1], slot[2])
        new(id) == BucketIdx(presence', id, slot[1], slot[2]) \ DOMAIN presence
    IN  /\ DOMAIN presence \subseteq DOMAIN presence'
        /\ \A id \in credited :
               IF old(id) # {}
               THEN /\ new(id) = {}
                    /\ \A i \in old(id) :
                          presence'[i] =
                              [presence[i] EXCEPT
                                  !.total_minutes_connected = @ + 60,
                                  !.sample_count = @ + 1]
               ELSE /\ Cardinality(new(id)) = 1
                    /\ \A i \in new(id) :
                          /\ presence'[i].total_minutes_connected = 60
                          /\ presence'[i].sample_count = 1
        /\ \A i \in DOMAIN presence :
               (\A id \in credited : i \notin old(id)) =>
                   presence'[i] = presence[i]
        /\ \A i \in DOMAIN presence' \ DOMAIN presence :
               \E id \in credited : i \in new(id)

\* C17: an aggregation tick at day d and hour h adds exactly 60 minutes and
\* one sample to the (device, d, h) bucket of every connected wireless
\* device, creating it with 60 and 1 when absent, and leaves every other
\* bucket, those of disconnected and wired devices included, unchanged.
C17_TickCreditsConnectedWireless ==
    [][aggregated' # aggregated => \E slot \in Slots : Credits(slot)]_vars

\* After two ticks in the same slot one device has a bucket of 120 minutes
\* and two samples, while a connected wired device has no bucket at all.
C17_Witness ==
    /\ aggregated = 2
    /\ \E a, b \in DOMAIN db_devices :
          /\ a # b
          /\ \E i \in BucketIdx(presence, a, 0, 14) :
                /\ presence[i].total_minutes_connected = 120
                /\ presence[i].sample_count = 2
          /\ db_devices[b].is_connected /\ db_devices[b].is_wired
          /\ \A i \in DOMAIN presence : presence[i].device_id # b

\* The executions of a job in progress: the runs the scheduler started and
\* the run start_scheduler called directly.
InProgress(j) ==
    jobs.scheduled[j] + (IF jobs.startup = j THEN 1 ELSE 0)

\* C13: at no point are two executions of the same job in progress, the runs
\* started directly by start_scheduler counted with the scheduled ones.
C13_NoOverlappingRuns ==
    jobs # <<>> => \A j \in JobIds : InProgress(j) <= 1

\* A history row references a device that is not stored.
Orphans ==
    {k \in DOMAIN db_history : db_history[k].device_id \notin DOMAIN db_devices}

\* C20: once delete_device has committed and the refresh that was in flight
\* has finished, no history row references the deleted device.
C20_DeleteRemovesAllIntervals ==
    (deleting # <<>> /\ deleting.request = <<>> /\ pc = "idle")
        => Orphans = {}

\* C27: a roamed notification is emitted for a device in a cycle only if the
\* device was stored as connected before the cycle and is connected after it.
C27_RoamedOnlyWhileConnected ==
    \A id \in DOMAIN s_devices :
        (Processed(id) /\ Notified(id, "roamed") > 0) =>
            /\ db_devices[id].is_connected
            /\ s_devices[id].is_connected

\* The fields of a device row that record its connectivity.
ConnectivityFields(device) ==
    <<device.is_connected, device.last_seen, device.is_wired,
      device.current_ap_mac, device.current_ip_address,
      device.current_signal_strength, device.current_ssid,
      device.current_radio, device.current_switch_mac,
      device.current_switch_port>>

\* Number of broadcasts the cycle in flight has emitted for the device.
Broadcasts(id) ==
    Cardinality({k \in 1..Len(events) :
        events[k].kind = "broadcast" /\ events[k].device_id = id})

\* The rows of the device stored before the cycle are as they were.
RowsKept(id) ==
    \A i \in 1..Len(db_history) :
        db_history[i].device_id = id => s_history[i] = db_history[i]

\* C29: for a device stored as disconnected and absent from the snapshot, a
\* cycle changes none of the device's connectivity fields, opens or closes no
\* interval, and emits no connectivity notification and no broadcast other
\* than that of a blocked flip.
C29_AbsentDisconnectedIsNoOp ==
    \A id \in DOMAIN s_devices :
        (Processed(id) /\ ~db_devices[id].is_connected /\ ~Reported(id)) =>
            /\ ConnectivityFields(s_devices[id]) =
                   ConnectivityFields(db_devices[id])
            /\ OpenedBy(id) = {}
            /\ RowsKept(id)
            /\ Notified(id, "connected") = 0
            /\ Notified(id, "disconnected") = 0
            /\ Notified(id, "roamed") = 0
            /\ Broadcasts(id) =
                   Notified(id, "blocked") + Notified(id, "unblocked")

\* A device that went offline in an earlier cycle, with a closed interval and
\* its last location still stored, is processed while absent.
C29_Witness ==
    \E id \in DOMAIN s_devices :
        /\ Processed(id) /\ ~db_devices[id].is_connected /\ ~Reported(id)
        /\ db_devices[id].last_seen # NoneInt
        /\ ClosedIdx(db_history, id) # {}
        /\ Broadcasts(id) = 0

\* The medium and the attachment point a device row stores.
Location(device) ==
    <<device.is_wired, device.current_ap_mac, device.current_switch_mac,
      device.current_switch_port>>

\* The stored device is connected and the snapshot reports it on the same
\* medium at the same access point, or the same switch and port.
SameLocation(id) ==
    /\ db_devices[id].is_connected
    /\ Reported(id)
    /\ ClientOf(id).is_wired = db_devices[id].is_wired
    /\ IF ClientOf(id).is_wired
       THEN /\ ClientOf(id).sw_mac = db_devices[id].current_switch_mac
            /\ ClientOf(id).sw_port = db_devices[id].current_switch_port
       ELSE ClientOf(id).ap_mac = db_devices[id].current_ap_mac

\* The telemetry a descriptor carries, as process_device stores it.
TelemetryStored(device, client, t) ==
    /\ device.last_seen = Some(t)
    /\ device.current_ip_address = client.ip
    /\ device.current_signal_strength =
           IF client.is_wired THEN NoneInt ELSE OrInt(client.signal, client.rssi)
    /\ device.current_ssid = IF client.is_wired THEN None ELSE client.essid
    /\ device.current_radio = IF client.is_wired THEN None ELSE client.radio

\* C30 as stated: a connected device reported at its stored location has only
\* its telemetry fields updated, its intervals left unchanged, and gets no
\* notification of any type.
C30_SameLocationOnlyTelemetry ==
    \A id \in DOMAIN s_devices :
        (Processed(id) /\ SameLocation(id)) =>
            /\ TelemetryStored(s_devices[id], ClientOf(id), now)
            /\ s_devices[id].is_connected
            /\ Location(s_devices[id]) = Location(db_devices[id])
            /\ s_devices[id].is_blocked = db_devices[id].is_blocked
            /\ s_history = db_history
            /\ \A type \in EventTypes : Notified(id, type) = 0

\* C30: a connected device reported at its stored location has its telemetry
\* fields updated, its location and its intervals left unchanged, and gets no
\* connected, disconnected or roamed notification; is_blocked changes and a
\* blocked or unblocked notification with its broadcast is emitted exactly
\* when the blocked check finds the flag flipped.
C30_SameLocationTelemetryAndBlocked ==
    \A id \in DOMAIN s_devices :
        (Processed(id) /\ SameLocation(id)) =>
            LET query == is_client_blocked(
                             blocked_status[db_devices[id].mac_address])
                flips == query.ok /\ query.blocked # db_devices[id].is_blocked
            IN  /\ TelemetryStored(s_devices[id], ClientOf(id), now)
                /\ s_devices[id].is_connected
                /\ Location(s_devices[id]) = Location(db_devices[id])
                /\ s_history = db_history
                /\ Notified(id, "connected") = 0
                /\ Notified(id, "disconnected") = 0
                /\ Notified(id, "roamed") = 0
                /\ s_devices[id].is_blocked # db_devices[id].is_blocked <=> flips
                /\ Notified(id, "blocked") + Notified(id, "unblocked") =
                       IF flips THEN 1 ELSE 0
                /\ Broadcasts(id) = IF flips THEN 1 ELSE 0

\* A wired device seen again on its switch port at a later time: last_seen
\* moves, the open interval stays.
C30_Witness ==
    \E id \in DOMAIN s_devices :
        /\ Processed(id) /\ SameLocation(id)
        /\ db_devices[id].is_wired
        /\ db_devices[id].current_switch_mac = "sw1"
        /\ db_devices[id].last_seen # s_devices[id].last_seen
        /\ OpenIdx(s_history, id) # {}
        /\ events = <<>>

\* Number of transitions the cycle in flight has applied to the device: one
\* when it connected, disconnected or moved while connected, and one when
\* its blocked flag flipped.
Transitions(id) ==
    LET before == db_devices[id]
        after == s_devices[id]
    IN  (IF \/ before.is_connected # after.is_connected
            \/ (before.is_connected /\ Location(before) # Location(after))
         THEN 1 ELSE 0) +
        (IF before.is_blocked # after.is_blocked THEN 1 ELSE 0)

\* Every trigger_webhooks call of the cycle directly follows a broadcast for
\* the same device.
BroadcastFirst ==
    \A k \in 1..Len(events) :
        events[k].kind = "webhook" =>
            /\ k > 1
            /\ events[k - 1].kind = "broadcast"
            /\ events[k - 1].device_id = events[k].device_id

\* C23: in every cycle one broadcast is emitted for each transition applied
\* to a device (connect, disconnect, roam, blocked flip), before the
\* transition's notification, and none for a device whose cycle is a
\* telemetry refresh or a no-op.
C23_OneBroadcastPerTransition ==
    /\ BroadcastFirst
    /\ \A id \in DOMAIN s_devices :
          Processed(id) => Broadcasts(id) = Transitions(id)

\* A wired device that went offline comes back on the switch port it last
\* used: it is connected again and nothing was broadcast.
C23_SilentReconnect ==
    \E id \in DOMAIN s_devices :
        /\ Processed(id)
        /\ ~db_devices[id].is_connected
        /\ s_devices[id].is_connected
        /\ ClientOf(id) = WiredOn("sw1", "1")
        /\ events = <<>>

\* C24: whenever process_device opens a new interval for a device, on connect
\* or on roam, the intervals of the device that were still open are closed
\* first: right after, the new interval is the device's only open interval.
C24_OpenClosesOpenIntervals ==
    \A id \in DOMAIN s_devices :
        (Processed(id) /\ OpenedBy(id) # {}) =>
            /\ Cardinality(OpenedBy(id)) = 1
            /\ OpenIdx(s_history, id) = OpenedBy(id)

\* A device stored as disconnected with an interval left open connects: the
\* new interval is opened beside the old one.
C24_ConnectBesideOpen ==
    \E id \in DOMAIN s_devices :
        /\ Processed(id)
        /\ ~db_devices[id].is_connected
        /\ OpenIdx(db_history, id) # {}
        /\ Notified(id, "connected") = 1
        /\ Cardinality(OpenIdx(s_history, id)) = 2

\* The ids a history row can reference under SpecOne: the tracked device and
\* a device with no row.
CloseIds == {1, 2}

\* Positions of the rows of a device with a null disconnected_at.
StillOpen(hist, id) ==
    {i \in 1..Len(hist) :
        hist[i].device_id = id /\ hist[i].disconnected_at = NoneInt}

\* Table after differs from table before in row i alone, which was closed at
\* time t with its duration.
ClosedOnly(before, after, i, t) ==
    /\ Len(after) = Len(before)
    /\ after[i] = [before[i] EXCEPT
                      !.disconnected_at = Some(t),
                      !.duration_seconds = Some(t - before[i].connected_at)]
    /\ \A k \in 1..Len(before) : k # i => after[k] = before[k]

\* C28: close_connection_history closes only the device's open interval with
\* the greatest connected_at, setting its disconnected_at and
\* duration_seconds; every other interval, older open ones of the device and
\* those of other devices included, is unchanged, and nothing changes when
\* the device has no open interval.
C28_ClosesOnlyMostRecentOpen ==
    \A id \in CloseIds :
        LET before == s_history
            after == close_connection_history(before, id, now)
            open == StillOpen(before, id)
        IN  IF open = {} THEN after = before
            ELSE \E i \in open :
                    /\ \A j \in open :
                          before[j].connected_at <= before[i].connected_at
                    /\ ClosedOnly(before, after, i, now)

\* A cycle has closed the later of two open intervals of a device that went
\* offline, and the older one is still open.
C28_Witness ==
    \E id \in DOMAIN s_devices :
        /\ Processed(id)
        /\ Cardinality(StillOpen(db_history, id)) = 2
        /\ \E i \in StillOpen(db_history, id) :
              /\ ClosedOnly(db_history, s_history, i, now)
              /\ \E j \in StillOpen(s_history, id) :
                    s_history[j].connected_at < s_history[i].connected_at

\* The value of a hex digit.
HexValue(c) ==
    CASE c \in {"a", "A"} -> 10 [] c \in {"b", "B"} -> 11
      [] c \in {"c", "C"} -> 12 [] c \in {"d", "D"} -> 13
      [] c \in {"e", "E"} -> 14 [] c \in {"f", "F"} -> 15
      [] c = "0" -> 0 [] c = "1" -> 1 [] c = "2" -> 2 [] c = "3" -> 3
      [] c = "4" -> 4 [] c = "5" -> 5 [] c = "6" -> 6 [] c = "7" -> 7
      [] c = "8" -> 8 [] c = "9" -> 9

\* The hardware address a string names: the values of its hex digits.
Identity(mac) ==
    LET digits == SelectSeq(mac, LAMBDA c : c \in HexDigits)
    IN  [i \in 1..Len(digits) |-> HexValue(digits[i])]

\* The string is in the normalized form: six pairs of lower-case hex digits
\* separated by colons.
Normalized(mac) ==
    /\ Len(mac) = 17
    /\ \A i \in 1..17 :
          IF i % 3 = 0 THEN mac[i] = ":"
          ELSE mac[i] \in HexDigits \ {"A", "B", "C", "D", "E", "F"}

\* No two tracked devices name the same hardware address, and every tracked
\* address is stored in the normalized form.
UniqueIdentities ==
    \A i \in DOMAIN db_devices :
        /\ Normalized(db_devices[i].mac_address)
        /\ \A j \in DOMAIN db_devices :
              i # j => Identity(db_devices[i].mac_address) #
                       Identity(db_devices[j].mac_address)

\* The step answers a create_device request for an address that names the
\* hardware address of a tracked device.
AnswersTracked ==
    /\ requests'.response.n # requests.response.n
    /\ requests'.response.status # 422
    /\ \E i \in DOMAIN db_devices :
          Identity(db_devices[i].mac_address) = Identity(requests'.response.mac)

\* C21: after any sequence of create_device and delete_device calls no two
\* tracked devices have the same normalized identity, and a create_device
\* call whose normalized identity is tracked is answered with an error and
\* changes neither the tracked set nor an interval.
C21_UniqueNormalizedIdentity ==
    /\ []UniqueIdentities
    /\ [][AnswersTracked =>
             /\ requests'.response.status \in {400, 500}
             /\ db_devices' = db_devices
             /\ db_history' = db_history]_vars

\* A device with an open interval is tracked, and a request naming it in
\* another spelling was answered with 400.
C21_Witness ==
    /\ requests.response.status = 400
    /\ ~requests.response.as_sent
    /\ \E i \in DOMAIN db_devices :
          /\ db_devices[i].mac_address = requests.response.mac
          /\ OpenIdx(db_history, i) # {}

SingleConnected ==
    /\ single # <<>>
    /\ single.stage = "done"
    /\ Calls(single.events, "connected") > 0

\* C25: when the refresh_single_device task of a newly registered device
\* interleaves with a cycle that processes the device too, the device never
\* has more than one open interval, and its first connect is notified once:
\* the task does not dispatch `connected` for a device stored as connected,
\* nor do the task and the cycle it overlaps both dispatch it.
C25_SingleBesideCycle ==
    /\ \A id \in DOMAIN db_devices :
          Cardinality(OpenIdx(db_history, id)) <= 1
    /\ SingleConnected =>
          /\ ~single.before.is_connected
          /\ ~(/\ pc = "processing"
               /\ single.cycle = now
               /\ Notified(single.id, "connected") > 0)

\* The task and the cycle it overlapped have both dispatched `connected`
\* and both opened an interval, and both are committed.
C25_TwiceConnected ==
    /\ SingleConnected
    /\ single.cycle = now
    /\ pc = "idle"
    /\ Cardinality(OpenIdx(db_history, single.id)) = 2

\* The request in progress has answered: it has dispatched `blocked` (flag
\* TRUE) or `unblocked` (flag FALSE).
Answered(flag) ==
    /\ requests # <<>>
    /\ "stage" \in DOMAIN requests
    /\ requests.stage = "done"
    /\ requests.flag = flag

\* C26: when block_device or unblock_device flips a device while a cycle is
\* in flight, the flip is notified once: the endpoint does not dispatch its
\* notification for a status the store already holds, and the cycle in
\* flight does not dispatch the notification of the same flip.
C26_OneNotificationPerFlip ==
    \A flag \in BOOLEAN :
        Answered(flag) =>
            /\ requests.before # flag
            /\ Notified(requests.id,
                        IF flag THEN "blocked" ELSE "unblocked") = 0

\* The endpoint has blocked the device and dispatched `blocked`, and the
\* cycle that had loaded the device as not blocked has dispatched `blocked`
\* as well.
C26_TwiceBlocked ==
    /\ Answered(TRUE)
    /\ ~requests.before
    /\ requests.cycle = now
    /\ Processed(requests.id)
    /\ Notified(requests.id, "blocked") = 1

\* C31: every closed interval has a duration_seconds that is a non-negative
\* integer, whatever connected_at the store held and whatever the close
\* time.
C31_DurationNonNegative ==
    (closing # <<>> /\ closing.duration_seconds # NoneInt) =>
        /\ closing.duration_seconds[1] \in Int
        /\ closing.duration_seconds[1] >= 0

\* An interval whose connected_at lies two seconds after the close time was
\* closed: minus two seconds are stored.
C31_NegativeStored ==
    /\ closing # <<>>
    /\ closing.duration_seconds # NoneInt
    /\ UtcInstant(closing.connected_at) - UtcInstant(closing.disconnected_at)
           = 2 * TicksPerSecond
    /\ closing.duration_seconds = Some(0 - 2)

\* C32: aggregation runs only at instants aligned to the top of a wall-clock
\* hour, and within one wall-clock hour the bucket of a connected wireless
\* device gets at most one 60-minute credit and one sample.
C32_OneCreditPerWallHour ==
    /\ [](\A i \in DOMAIN presence :
             /\ presence[i].sample_count <= 1
             /\ presence[i].total_minutes_connected <= 60)
    /\ [][presence' # presence => TopOfHour(jobs.clock)]_vars

\* The application was started twice within one hour, away from the top of
\* the hour: the bucket of the hour holds two samples and 120 minutes.
C32_TwiceInOneHour ==
    /\ ~TopOfHour(jobs.clock)
    /\ jobs.starts = 2
    /\ \E i \in DOMAIN presence :
          /\ <<presence[i].day_of_week, presence[i].hour_of_day>>
                 = SlotOf(jobs.clock)
          /\ presence[i].sample_count = 2
          /\ presence[i].total_minutes_connected = 120

\* Table after keeps the rows of table before: none is missing, each is
\* still the row of its device, and a closed one is as it was.
Kept(before, after) ==
    /\ Len(after) >= Len(before)
    /\ \A i \in 1..Len(before) :
          /\ after[i].device_id = before[i].device_id
          /\ before[i].disconnected_at # NoneInt =>
                /\ after[i].connected_at = before[i].connected_at
                /\ after[i].disconnected_at = before[i].disconnected_at
                /\ after[i].duration_seconds = before[i].duration_seconds

\* C33: no step of a reconciliation cycle deletes a connection interval, in
\* the store or in the session of the cycle in flight, and a closed interval
\* keeps its connected_at, disconnected_at and duration_seconds through
\* every later cycle.
C33_IntervalsKept ==
    [][/\ Kept(db_history, db_history')
       /\ (pc = "processing" /\ pc' = "processing") =>
              Kept(s_history, s_history')]_vars

\* The device has a closed interval, stored by an earlier cycle, and the
\* cycle in flight has closed a later interval of the device.
C33_Witness ==
    \E id \in DOMAIN s_devices :
        /\ Processed(id)
        /\ ClosedIdx(db_history, id) # {}
        /\ ClosedBy(id) # {}

\* The rows an aggregation run in flight holds in its session.
HeldBy(run) ==
    {run.updated[i] : i \in DOMAIN run.updated}
        \cup {run.created[k] : k \in DOMAIN run.created}

\* The step is an aggregation tick that credits the given devices in the
\* slot, as one run on its own does: each has 60 minutes and one sample more
\* in its bucket, or a new bucket with 60 and 1, and nothing else differs.
CreditsOf(credited, slot) ==
    LET old(id) == BucketIdx(presence, id, slot[1], slot[2])
        new(id) == BucketIdx(presence', id, slot[1], slot[2]) \ DOMAIN presence
    IN  /\ DOMAIN presence \subseteq DOMAIN presence'
        /\ \A id \in credited :
               IF old(id) # {}
               THEN /\ new(id) = {}
                    /\ \A i \in old(id) : presence'[i] = AddHour(presence[i])
               ELSE /\ Cardinality(new(id)) = 1
                    /\ \A i \in new(id) :
                          /\ presence'[i].total_minutes_connected = 60
                          /\ presence'[i].sample_count = 1
        /\ \A i \in DOMAIN presence :
               (\A id \in credited : i \notin old(id)) =>
                   presence'[i] = presence[i]
        /\ \A i \in DOMAIN presence' \ DOMAIN presence :
               \E id \in credited : i \in new(id)

\* The step belongs to an aggregation run.
AggregationStep == aggregated' # aggregated \/ jobs' # jobs \/ presence' # presence

\* The step belongs to a reconciliation cycle.
ReconciliationStep ==
    \/ pc' # pc
    \/ todo' # todo
    \/ db_devices' # db_devices
    \/ db_history' # db_history
    \/ s_devices' # s_devices
    \/ s_history' # s_history

\* C34: a step of the aggregation job changes no tracked device and no
\* interval, a step of the reconciliation job changes no presence bucket,
\* and an aggregation run interleaved with cycles stores what a run on its
\* own stores in some sequential order of the two jobs: it credits the
\* devices that were stored as connected and wireless when it selected them,
\* once each, in the buckets as they are when it commits.
C34_JobsCommute ==
    [][/\ AggregationStep =>
              UNCHANGED <<db_devices, db_history, s_devices, s_history>>
       /\ ReconciliationStep => UNCHANGED <<presence, jobs, aggregated>>
       /\ \A run \in Runs :
             /\ (run \notin DOMAIN jobs /\ run \in DOMAIN jobs') =>
                    {row.device_id : row \in HeldBy(jobs'[run])}
                        = ConnectedWireless(db_devices)
             /\ (run \in DOMAIN jobs /\ presence' # presence) =>
                    \E slot \in Slots :
                        /\ \A row \in HeldBy(jobs[run]) :
                              <<row.day_of_week, row.hour_of_day>> = slot
                        /\ CreditsOf({row.device_id :
                                         row \in HeldBy(jobs[run])}, slot)
      ]_vars

\* An aggregation run is in flight and a cycle has committed since the run
\* selected its devices: the devices stored as connected are no longer the
\* ones the run will credit.
C34_Witness ==
    /\ pc = "idle"
    /\ outcome = "committed"
    /\ "scheduled" \in DOMAIN jobs
    /\ {row.device_id : row \in HeldBy(jobs["scheduled"])}
           # ConnectedWireless(db_devices)

\* C35: after a completed reconciliation cycle every tracked device has
\* is_connected equal to whether its address is a key of the snapshot of
\* that cycle.
C35_ConnectedIffInSnapshot ==
    (pc = "idle" /\ outcome = "committed" /\ job = "cycle") =>
        \A id \in DOMAIN db_devices :
            db_devices[id].is_connected
                = (db_devices[id].mac_address \in DOMAIN active_clients)

\* A cycle has committed whose snapshot reported the device as a wireless
\* client of no access point: the device is stored as connected.
C35_Witness ==
    /\ pc = "idle"
    /\ outcome = "committed"
    /\ job = "cycle"
    /\ \E id \in DOMAIN db_devices :
          /\ Reported(id)
          /\ ~ClientOf(id).is_wired
          /\ ClientOf(id).ap_mac = None
          /\ db_devices[id].is_connected

\* The medium and location an interval row records.
RowLocation(row) == <<row.is_wired, row.ap_mac, row.switch_mac, row.switch_port>>

\* C36: after a completed reconciliation cycle a device stored as connected
\* has an open interval whose medium and location are the attachment stored
\* on the device (access point, or switch and port).
C36_ConnectedHasOpenInterval ==
    (pc = "idle" /\ outcome = "committed" /\ job = "cycle") =>
        \A id \in DOMAIN db_devices :
            db_devices[id].is_connected =>
                \E i \in OpenIdx(db_history, id) :
                    RowLocation(db_history[i]) = Location(db_devices[id])

\* A cycle has committed in which the device was reported on the switch and
\* port stored on it: it is stored as connected there and has no open
\* interval.
C36_ConnectedWithoutInterval ==
    /\ pc = "idle"
    /\ outcome = "committed"
    /\ job = "cycle"
    /\ \E id \in DOMAIN db_devices :
          /\ db_devices[id].is_connected
          /\ Reported(id)
          /\ ClientOf(id).is_wired
          /\ ClientOf(id).sw_mac # None
          /\ db_devices[id].current_switch_mac = ClientOf(id).sw_mac
          /\ db_devices[id].current_switch_port = ClientOf(id).sw_port
          /\ OpenIdx(db_history, id) = {}

\* C37: after a completed reconciliation cycle a device stored as
\* disconnected has no open interval.
C37_DisconnectedHasNoOpenInterval ==
    (pc = "idle" /\ outcome = "committed" /\ job = "cycle") =>
        \A id \in DOMAIN db_devices :
            ~db_devices[id].is_connected => OpenIdx(db_history, id) = {}

\* A cycle has committed a disconnect: the device is stored as disconnected,
\* its latest interval is closed and an older one is still open.
C37_DisconnectedWithOpenInterval ==
    /\ pc = "idle"
    /\ outcome = "committed"
    /\ job = "cycle"
    /\ \E id \in DOMAIN db_devices :
          /\ ~db_devices[id].is_connected
          /\ \E i \in OpenIdx(db_history, id), j \in ClosedIdx(db_history, id) :
                i < j

\* C38: in every reachable state every presence bucket has a sample_count
\* of at least 1 and a total_minutes_connected of 60 times its
\* sample_count, so that the average get_presence_pattern reports for a
\* slot that has a bucket is exactly 60 minutes.
C38_SixtyMinutesPerSample ==
    \A i \in DOMAIN presence :
        /\ presence[i].sample_count >= 1
        /\ presence[i].total_minutes_connected = 60 * presence[i].sample_count
        /\ AvgMinutes(presence[i]) = 60

\* A bucket credited by two runs holds two samples, and a third run in
\* flight holds it with 180 minutes.
C38_Witness ==
    /\ aggregated = 3
    /\ "scheduled" \in DOMAIN jobs
    /\ \E i \in DOMAIN presence :
          /\ presence[i].sample_count = 2
          /\ i \in DOMAIN jobs["scheduled"].updated
          /\ jobs["scheduled"].updated[i].total_minutes_connected = 180

\* The sink is enabled and subscribed to the event type.
Wants(w, type) == webhooks[w].enabled /\ type \in webhooks[w].subscribed

\* C39: trigger_webhooks calls deliver_webhook for a sink only if the sink
\* is enabled and subscribed to the type of the event, it calls it for every
\* such sink whatever the earlier calls came to, and last_triggered is
\* updated only for a sink with a delivery call that did not raise.
C39_DeliveryToSubscribedSinks ==
    [][/\ \A a \in delivered' \ delivered : Wants(a.sink, a.event_type)
       /\ \A k \in (Len(events) + 1)..Len(events') :
             events'[k].kind = "webhook" =>
                 \A w \in DOMAIN webhooks :
                     Wants(w, events'[k].event_type) =>
                         \E a \in delivered' :
                             /\ a.sink = w
                             /\ a.event_type = events'[k].event_type
                             /\ a.device_id = events'[k].device_id
       /\ \A w \in DOMAIN webhooks :
             webhooks'[w].last_triggered # webhooks[w].last_triggered =>
                 \E a \in delivered : a.sink = w /\ a.result # "raised"
      ]_vars

\* A cycle has committed in which every call for the first sink raised and a
\* call for the second sink, made after one of them, returned: only the
\* second sink has a last_triggered, and the disabled sink was never called.
C39_Witness ==
    /\ pc = "idle"
    /\ outcome = "committed"
    /\ dispatched = [type \in EventTypes |-> 0]
    /\ webhooks[1].last_triggered = NoneInt
    /\ webhooks[2].last_triggered # NoneInt
    /\ webhooks[3].last_triggered = NoneInt

\* No two rows of a table of threat events share a unifi_event_id.
DistinctIds(rows) ==
    \A i, j \in DOMAIN rows :
        rows[i].unifi_event_id = rows[j].unifi_event_id => i = j

\* The poll is at an event whose unifi_event_id a stored event, or an event
\* added earlier in this poll, has already.
AtDuplicate ==
    /\ jobs.polling
    /\ jobs.batch # <<>>
    /\ \E i \in DOMAIN (jobs.stored \o jobs.pending) :
          (jobs.stored \o jobs.pending)[i].unifi_event_id
              = parse_unifi_event(Head(jobs.batch))

\* C40: after any sequence of refresh_threat_events polls no two stored
\* threat events share a unifi_event_id, also when an event comes twice in
\* one batch or again in a later batch, and an event skipped as a duplicate
\* adds no row and triggers no webhook.
C40_UniqueThreatEvents ==
    /\ [](DistinctIds(jobs.stored) /\ DistinctIds(jobs.stored \o jobs.pending))
    /\ [][(AtDuplicate /\ jobs'.batch # jobs.batch /\ jobs'.polling) =>
              /\ jobs'.pending = jobs.pending
              /\ jobs'.stored = jobs.stored
              /\ jobs'.calls = jobs.calls]_vars

\* The second poll is at an event it has added already in this batch, after
\* the first poll stored another event, and both were notified.
C40_Witness ==
    /\ AtDuplicate
    /\ jobs.polls = 2
    /\ Len(jobs.stored) = 1
    /\ Len(jobs.pending) = 1
    /\ jobs.pending[1].unifi_event_id = parse_unifi_event(Head(jobs.batch))
    /\ Cardinality(jobs.calls) = 2

====
